---- MODULE Spec2Model ----
(***************************************************************************)
(* A model of the gifski encoding pipeline (gifski-api/src): the ordered   *)
(* queue, the worker pools of minipool, the Collector and the stages of    *)
(* Writer::write_inner.                                                    *)
(***************************************************************************)
EXTENDS Integers, Sequences, FiniteSets, TLC

(***************************************************************************)
(* Bounds of the model.                                                    *)
(***************************************************************************)
\* number of distinct indices the senders of the stand-alone ordered queue may push
OrdItems == 3
\* number of sender clones of the stand-alone ordered queue
OrdSenders == 2
\* depth passed to ordqueue::new for the stand-alone ordered queue
OrdDepth == 1
\* number of frame indices (0 .. MaxFrames-1) the Collector may add
MaxFrames == 4
\* the same when lossy LZW is on (the LZW pool then has 3 workers)
MaxFramesLossy == 3
\* the largest thread::available_parallelism() considered (lib.rs new())
MaxThreads == 2

(***************************************************************************)
(* Program constants.                                                      *)
(***************************************************************************)
\* denoise.rs: const LOOKAHEAD: usize = 5
LOOKAHEAD == 5
\* write_frames: ordqueue_new(2), the depth of lzw_queue
LzwDepth == 2
\* minipool::new_channel: crossbeam_channel::bounded(2)
QuantDepth == 2

Min2(a, b) == IF a <= b THEN a ELSE b

(***************************************************************************)
(* ordqueue.rs: ReverseTuple and the receive buffer (a BinaryHeap).        *)
(* Heap entries are pairs <<index, item>>.                                 *)
(***************************************************************************)

\* a mutation of ReverseTupleLe: the comparison is not reversed
ReverseTupleLe_NotReversed(a, b) == a[1] <= b[1]

\* Ord for ReverseTuple: cmp(self, o) = o.0.cmp(&self.0); a <= b in heap order
ReverseTupleLe(a, b) == b[1] <= a[1]

\* BinaryHeap::peek / pop: the greatest entry of the heap in the order above
HeapPeek(heap) == CHOOSE x \in heap : \A y \in heap : ReverseTupleLe(y, x)

\* the loop condition of OrdQueueIter::next:
\*   receive_buffer.peek().map(|i| i.0) != Some(next_index)
\* a mutation of MustReceive: the head of the buffer is taken whatever its index
MustReceive_AnyHead(heap, next) == heap = {}

MustReceive(heap, next) == IF heap = {} THEN TRUE ELSE HeapPeek(heap)[1] # next

(***************************************************************************)
(* The state of the pipeline: lib.rs new(), Collector, Writer::write_inner. *)
(***************************************************************************)
VARIABLES
    colAlive,      \* the Collector has not been dropped
    colUnsent,     \* frame indices the Collector has not passed to add_frame yet
    colAccepted,   \* frame indices for which add_frame returned Ok
    addRes,        \* result of the last add_frame call ("none" before the first)
    writer,        \* "idle" (not started), "running" (in write), "done", "dropped"
    writeRes,      \* what Writer::write returned ("none" until it returns)
    inq,           \* the input queue (Collector::queue / Writer::queue_iter)
    rz,            \* resize pool workers (make_resize)
    rzFailed,      \* abort flag of the resize pool
    dfPc,          \* make_diffs: "next", "send", "done"
    dfHeap,        \* receive buffer of diff_queue
    dfNext,        \* next_index of diff_queue
    dfOrd,         \* make_diffs: ordinal_frame_number
    dfSeen,        \* history: the frame indices inputs.next() has returned, in order
    denoiser,      \* make_diffs: the Denoiser
    dfMsg,         \* make_diffs: the DiffMessage being sent (its ordinal)
    dfRes,         \* result of make_diffs
    qpPc,          \* quantize_frames producer: "first", "next", "send", "done"
    qpCur,         \* producer: ordinal of the frame being looked at
    qpHeld,        \* producer: next_frame (ordinal, 0 for None)
    qpIdx,         \* producer: frame_index
    qpKeeps,       \* producer: prev_frame_keeps
    qpImpZero,     \* producer: the importance_map it holds is all-zero
    qpMsg,         \* producer: the QuantizeMessage being sent
    qpRes,         \* result of the producer closure
    qch,           \* the channel of minipool::new_channel
    qw,            \* quantizer pool workers
    qFailed,       \* abort flag of the quantizer pool
    rmPc,          \* remap_frames: "next", "send", "done"
    rmHeap,        \* receive buffer of remap_queue
    rmNext,        \* next_index of remap_queue
    rmIdx,         \* remap_frames: frame_index
    rmMsg,         \* remap_frames: the FrameMessage being sent
    rmRes,         \* result of remap_frames
    rmSeen,        \* history: the indices of the RemapMessages processed, in order
    lz,            \* LZW pool workers (write_frames)
    lzFailed,      \* abort flag of the LZW pool
    lzq,           \* the channel of lzw_queue
    wrPc,          \* writer closure of write_frames: "next", "done"
    wrHeap,        \* receive buffer of lzw_queue
    wrNext,        \* next_index of lzw_queue
    n_done,        \* write_frames: n_done
    written,       \* history: frame_index of every frame passed to enc.write_frame
    wrRes,         \* result of the writer closure
    abortAt,       \* history: Len(written) when increase() returned false (0: never)
    lossy,         \* SettingsExt::gifsicle_loss() > 0
    max_threads    \* Settings::max_threads, set by new() from available_parallelism()

colVars == <<colAlive, colUnsent, colAccepted, addRes>>
rzVars == <<rz, rzFailed>>
dfVars == <<dfPc, dfHeap, dfNext, dfOrd, dfSeen, denoiser, dfMsg, dfRes>>
qpVars == <<qpPc, qpCur, qpHeld, qpIdx, qpKeeps, qpImpZero, qpMsg, qpRes>>
qwVars == <<qw, qFailed>>
rmVars == <<rmPc, rmHeap, rmNext, rmIdx, rmMsg, rmRes, rmSeen>>
lzVars == <<lz, lzFailed>>
wrVars == <<wrPc, wrHeap, wrNext, n_done, written, wrRes, abortAt>>
pipeVars == <<colVars, writer, writeRes, inq, rzVars, dfVars, qpVars, qch, qwVars,
              rmVars, lzVars, lzq, wrVars, lossy, max_threads>>

(***************************************************************************)
(* The state of one encode followed frame by frame, with the contents of   *)
(* the frames: make_diffs, the producer and the quantizer closure of       *)
(* quantize_frames, remap_frames and the writer closure of write_frames,   *)
(* each taken through its loop in turn.  Every queue between them delivers *)
(* in frame order.  Times are in milliseconds.                             *)
(***************************************************************************)
VARIABLES
    sqIn,                  \* the frames make_diffs receives, in frame order
    sqPc,                  \* the loop that runs: "diffs", "quant", "remap", "write", "done"
    sqNext,                \* make_diffs: position in sqIn of next_frame
    ordinal_frame_number,  \* make_diffs: ordinal_frame_number
    last_frame_duration,   \* make_diffs: last_frame_duration
    last_frame_pts,        \* make_diffs: last_frame_pts
    sqDenoiser,            \* make_diffs: denoiser
    sqDiffs,               \* the DiffMessages sent so far
    sqCur,                 \* producer: position in sqDiffs of next_frame (0: None)
    prev_frame_keeps,      \* producer: prev_frame_keeps
    frame_index,           \* producer: frame_index
    importance_map,        \* producer: importance_map ("None", "zero", "nonzero")
    sqQuant,               \* the QuantizeMessages sent so far
    screen,                \* remap_frames: screen (pixels, and the disposal it owes)
    sqFrames,              \* the FrameMessages sent so far
    pts_in_delay_units,    \* writer: pts_in_delay_units
    sqOut                  \* the frames written so far, with their delay

seqVars == <<sqIn, sqPc, sqNext, ordinal_frame_number, last_frame_duration, last_frame_pts,
             sqDenoiser, sqDiffs, sqCur, prev_frame_keeps, frame_index, importance_map,
             sqQuant, screen, sqFrames, pts_in_delay_units, sqOut>>

\* no frame-by-frame encode is followed
SeqIdle ==
    /\ sqIn = <<>> /\ sqPc = "idle" /\ sqNext = 0 /\ ordinal_frame_number = 0
    /\ last_frame_duration = <<"FrameRate", 0>> /\ last_frame_pts = 0
    /\ sqDenoiser = <<>> /\ sqDiffs = <<>> /\ sqCur = 0
    /\ prev_frame_keeps = FALSE /\ frame_index = 0 /\ importance_map = "None"
    /\ sqQuant = <<>> /\ screen = <<>> /\ sqFrames = <<>>
    /\ pts_in_delay_units = 0 /\ sqOut = <<>>

(***************************************************************************)
(* resized_binary_alpha applied to one image (lib.rs).                     *)
(***************************************************************************)
VARIABLES
    baImage,   \* the image, at its target size: one row of pixels [c, a]
    baMatte,   \* Settings::matte: <<>> for None, <<m>> for Some(m)
    baIn,      \* history: the image before its alpha was made binary
    baPc       \* "start", "done"

baVars == <<baImage, baMatte, baIn, baPc>>

\* no image is being looked at
BaIdle == baImage = <<>> /\ baMatte = <<>> /\ baIn = <<>> /\ baPc = "idle"

(***************************************************************************)
(* One Denoiser (denoise.rs) with its pixels, for frames of one row.       *)
(* A pixel is [r, g, b, a]; VecDeques are sequences with the front first.  *)
(***************************************************************************)
VARIABLES
    splat,       \* Denoiser::splat: one Acc for every pixel
    frames,      \* Denoiser::frames
    threshold,   \* Denoiser::threshold
    processed,   \* Denoiser::processed: <<frame, importance_map>> pairs
    metadatas,   \* Denoiser::metadatas
    dnPushes,    \* history: the number of push_frame calls that returned Ok
    dnFlushed,   \* history: flush() has been called
    dnLast,      \* history: the last call, what it returned, the width of a frame pushed
    dnOut        \* history: the Denoised::Frame results of pop(), in order

dnVars == <<splat, frames, threshold, processed, metadatas, dnPushes, dnFlushed, dnLast, dnOut>>

\* no denoiser is being looked at
DnIdle ==
    /\ splat = <<>> /\ frames = 0 /\ threshold = 0 /\ processed = <<>> /\ metadatas = <<>>
    /\ dnPushes = 0 /\ dnFlushed = FALSE /\ dnLast = <<"idle">> /\ dnOut = <<>>

(***************************************************************************)
(* One handle of the C API (c_api.rs) with its output file, and one run of *)
(* the command-line program (bin/gifski.rs) with its output file.          *)
(***************************************************************************)
VARIABLES
    g_writer,        \* GifskiHandleInternal::writer holds Some(Writer)
    g_collector,     \* GifskiHandleInternal::collector holds Some(Collector)
    g_progress,      \* GifskiHandleInternal::progress: 0 for None, or the callback
    g_write_thread,  \* GifskiHandleInternal::write_thread: <<bool, "None" or "Some">>
    g_settings,      \* the SettingsExt of the Writer made by gifski_new
    threads,         \* the threads spawned by gifski_write_thread_start
    file,            \* the output file: "absent", "partial" or "complete"
    caller,          \* "c_api" or "cli", and "idle" when neither is looked at
    calls,           \* history: the calls made and what each returned
    cliPc            \* bin_main: "start", "write", "done"

capiVars == <<g_writer, g_collector, g_progress, g_write_thread, g_settings, threads, file,
              caller, calls, cliPc>>

\* no handle and no program run is being looked at
CapiIdle ==
    /\ g_writer = FALSE /\ g_collector = FALSE /\ g_progress = 0
    /\ g_write_thread = <<FALSE, "None">> /\ g_settings = <<>> /\ threads = <<>>
    /\ file = "absent" /\ caller = "idle" /\ calls = <<>> /\ cliPc = "idle"

(***************************************************************************)
(* One call of a function of lib.rs that keeps no state: its arguments and *)
(* what it returned.                                                       *)
(***************************************************************************)
VARIABLES
    fnPc,    \* "idle", the name of the function to call, or "done"
    fnIn,    \* the arguments
    fnOut    \* the value returned

fnVars == <<fnPc, fnIn, fnOut>>

\* no function is being looked at
FnIdle == fnPc = "idle" /\ fnIn = <<>> /\ fnOut = <<>>

\* the parts of the program that are looked at on their own, one at a time
restVars == <<dnVars, capiVars, fnVars>>

RestIdle == DnIdle /\ CapiIdle /\ FnIdle

\* Settings::fast: the encodes considered leave it off
fast == FALSE

\* a mutation of InputDepth: the queue holds one frame more
InputDepth_OneMore == Min2(5, max_threads) + 1
\* new(): crossbeam_channel::bounded(5.min(max_threads))
InputDepth == Min2(5, max_threads)
\* make_resize: max_threads.min(if fast || extra_effort { 6 } else { 4 })
ResizeThreads == Min2(max_threads, IF fast THEN 6 ELSE 4)
\* quantize_frames: max_threads.min(4)
QuantThreads == Min2(max_threads, 4)
\* write_frames: if fast || gifsicle_loss() > 0 { 3 } else { 1 }
LzwThreads == IF fast \/ lossy THEN 3 ELSE 1

(***************************************************************************)
(* The ordered queue on its own (ordqueue.rs): sender clones push the      *)
(* indices of ordUnsent in any order, the receiver calls next() in a loop. *)
(***************************************************************************)
VARIABLES
    ordUnsent,        \* indices no sender has pushed yet
    ordSenders,       \* number of OrdQueue clones not yet dropped
    ordChannel,       \* the crossbeam channel: a sequence of ReverseTuple
    receive_buffer,   \* OrdQueueIter::receive_buffer
    next_index,       \* OrdQueueIter::next_index
    ordYielded,       \* the items next() has returned, in order
    ordNone,          \* next() has returned None
    ordHeld           \* history: an item was buffered while a lower index was outstanding

ordVars == <<ordUnsent, ordSenders, ordChannel, receive_buffer, next_index,
             ordYielded, ordNone, ordHeld>>

OrdInit ==
    /\ ordUnsent = 0 .. (OrdItems - 1)
    /\ ordSenders = OrdSenders
    /\ ordChannel = <<>>
    /\ receive_buffer = {}
    /\ next_index = 0
    /\ ordYielded = <<>>
    /\ ordNone = FALSE
    /\ ordHeld = FALSE

\* OrdQueue::push: blocks while the bounded channel is full
OrdPush ==
    /\ ordSenders > 0
    /\ Len(ordChannel) < OrdDepth
    /\ \E i \in ordUnsent :
         /\ ordChannel' = Append(ordChannel, <<i, i>>)
         /\ ordUnsent' = ordUnsent \ {i}
    /\ UNCHANGED <<ordSenders, receive_buffer, next_index, ordYielded, ordNone, ordHeld>>
    /\ UNCHANGED <<pipeVars, seqVars, baVars, restVars>>

\* a sender clone is dropped (possibly before every index has been pushed)
OrdDropSender ==
    /\ ordSenders > 0
    /\ ordSenders' = ordSenders - 1
    /\ UNCHANGED <<ordUnsent, ordChannel, receive_buffer, next_index, ordYielded,
                   ordNone, ordHeld>>
    /\ UNCHANGED <<pipeVars, seqVars, baVars, restVars>>

\* next(): the peeked index is not the expected one, recv() returns Ok(item)
OrdRecv ==
    /\ ~ordNone
    /\ MustReceive(receive_buffer, next_index)
    /\ ordChannel # <<>>
    /\ receive_buffer' = receive_buffer \cup {Head(ordChannel)}
    /\ ordChannel' = Tail(ordChannel)
    /\ ordHeld' = (ordHeld \/ Head(ordChannel)[1] # next_index)
    /\ UNCHANGED <<ordUnsent, ordSenders, next_index, ordYielded, ordNone>>
    /\ UNCHANGED <<pipeVars, seqVars, baVars, restVars>>

\* a mutation of OrdPop: the buffer is not dumped once the senders are gone
OrdPop_NoDump ==
    IF receive_buffer # {} /\ ~MustReceive(receive_buffer, next_index)
    THEN /\ ordYielded' = Append(ordYielded, HeapPeek(receive_buffer)[2])
         /\ receive_buffer' = receive_buffer \ {HeapPeek(receive_buffer)}
         /\ next_index' = next_index + 1
         /\ UNCHANGED ordNone
    ELSE /\ ordNone' = TRUE
         /\ UNCHANGED <<receive_buffer, next_index, ordYielded>>

\* the tail of next(): pop the head of the buffer, or return None
OrdPop ==
    IF receive_buffer # {}
    THEN /\ ordYielded' = Append(ordYielded, HeapPeek(receive_buffer)[2])
         /\ receive_buffer' = receive_buffer \ {HeapPeek(receive_buffer)}
         /\ next_index' = next_index + 1
         /\ UNCHANGED ordNone
    ELSE /\ ordNone' = TRUE
         /\ UNCHANGED <<receive_buffer, next_index, ordYielded>>

\* next(): the loop ends because the expected index is at the head of the buffer
OrdYield ==
    /\ ~ordNone
    /\ ~MustReceive(receive_buffer, next_index)
    /\ OrdPop
    /\ UNCHANGED <<ordUnsent, ordSenders, ordChannel, ordHeld>>
    /\ UNCHANGED <<pipeVars, seqVars, baVars, restVars>>

\* next(): recv() returns Err (channel empty, every sender dropped): break
OrdDisconnected ==
    /\ ~ordNone
    /\ MustReceive(receive_buffer, next_index)
    /\ ordChannel = <<>>
    /\ ordSenders = 0
    /\ OrdPop
    /\ UNCHANGED <<ordUnsent, ordSenders, ordChannel, ordHeld>>
    /\ UNCHANGED <<pipeVars, seqVars, baVars, restVars>>

OrdNext == OrdPush \/ OrdDropSender \/ OrdRecv \/ OrdYield \/ OrdDisconnected


(***************************************************************************)
(* Claims about the ordered queue.                                         *)
(***************************************************************************)
Range(s) == {s[k] : k \in 1 .. Len(s)}

\* the items returned so far are exactly 0, 1, 2, ... in this order
OrdDensePrefix == \A k \in 1 .. Len(ordYielded) : ordYielded[k] = k - 1

\* C1: when the pushed indices together form 0..N-1, next() yields 0,1,...,N-1
\* in this order, each once, whatever the interleaving of the pushes; and it
\* returns None only when every sender is dropped and nothing is buffered.
C1_OrderedDelivery ==
    /\ (ordSenders > 0 \/ ordUnsent = {}) => OrdDensePrefix
    /\ ordNone => (ordSenders = 0 /\ ordChannel = <<>> /\ receive_buffer = {})
    /\ (ordNone /\ ordUnsent = {}) => Len(ordYielded) = OrdItems

\* C1 witness: all N items were pushed, some of them out of order (an item
\* waited in the buffer for a lower index), and next() has returned None.
C1_Witness ==
    /\ ordNone
    /\ ordUnsent = {}
    /\ ordHeld
    /\ Len(ordYielded) = OrdItems

\* C3 as stated: an item whose index lies beyond a hole (an index that is never
\* sent) is not delivered to the consumer.
C3_NothingPastHole ==
    \A k \in 1 .. Len(ordYielded) : \A j \in ordUnsent : ordYielded[k] < j

\* C3 as amended: items beyond a hole are held back while a sender is alive;
\* once every sender is dropped they are delivered, in increasing index order,
\* and next() returns None only after everything pushed has been delivered.
C3_HoleDumped ==
    /\ \A k \in 1 .. Len(ordYielded) - 1 : ordYielded[k] < ordYielded[k + 1]
    /\ ordSenders > 0 => OrdDensePrefix
    /\ ordNone => Range(ordYielded) = (0 .. (OrdItems - 1)) \ ordUnsent

\* C3 witness: the senders are gone, an index was never sent, and an item with
\* a higher index has been delivered all the same.
C3_Witness ==
    /\ ordNone
    /\ \E k \in 1 .. Len(ordYielded) : \E j \in ordUnsent : j < ordYielded[k]

(***************************************************************************)
(* minipool.rs and error.rs: results of workers, pools and stages.         *)
(* A result is "Ok" or the name of an Error variant.                       *)
(***************************************************************************)
NoMsg == <<>>

Worker(pc, m, res) == [pc |-> pc, m |-> m, res |-> res]
Idle == Worker("recv", NoMsg, "none")
Finished(res) == Worker("done", NoMsg, res)

\* a mutation of AllDone: the scope does not wait for its threads
AllDone_NoWait(pool) == TRUE
\* every thread of the pool has terminated
AllDone(pool) == \A w \in DOMAIN pool : pool[w].pc = "done"

\* the first Err among the joined handles, in spawn order
FirstError(pool) ==
    LET errs == {w \in DOMAIN pool : pool[w].res # "Ok"}
    IN IF errs = {} THEN "Ok"
       ELSE pool[CHOOSE w \in errs : \A v \in errs : w <= v].res

\* new_scope: handles.try_for_each(join)?; res
new_scope(res, pool) ==
    IF FirstError(pool) # "Ok" THEN FirstError(pool) ELSE res

\* lib.rs combine_res
combine_res(res1, res2) ==
    IF res1 # "Ok" /\ res2 = "Ok" THEN res1
    ELSE IF res1 = "Ok" /\ res2 # "Ok" THEN res2
    ELSE IF res1 = "ThreadSend" THEN res2
    ELSE IF res2 = "ThreadSend" THEN res1
    ELSE IF res1 = "Aborted" THEN res2
    ELSE IF res2 = "Aborted" THEN res1
    ELSE IF res1 = "NoFrames" THEN res2
    ELSE IF res2 = "NoFrames" THEN res1
    ELSE res2

\* errors that name a cause (neither Ok nor ThreadSend, Aborted, NoFrames)
RealErrors == {"PNG", "WrongSize", "Quant", "Pal", "Gifsicle", "Io"}

(***************************************************************************)
(* denoise.rs: the Denoiser as a queue (pixels are not modelled).          *)
(* metadatas is the VecDeque of metadata, newest first; processed counts   *)
(* the entries of the VecDeque of finished frames; splat holds, for the    *)
(* ring of every Acc, the frames whose samples it keeps, oldest first      *)
(* (0: no frame, the initial state and the dummy samples of flush).        *)
(***************************************************************************)
Denoiser_new ==
    [frames |-> 0, processed |-> 0, metadatas |-> <<>>,
     splat |-> [n \in 1 .. LOOKAHEAD |-> 0]]

Denoiser_push_frame(d, meta) ==
    [frames |-> d.frames + 1,
     metadatas |-> <<meta>> \o d.metadatas,
     processed |-> IF d.frames + 1 < LOOKAHEAD THEN d.processed ELSE d.processed + 1,
     splat |-> Tail(d.splat) \o <<meta>>]

RECURSIVE Denoiser_flush(_)
Denoiser_flush(d) ==
    IF d.processed < Len(d.metadatas)
    THEN Denoiser_flush([d EXCEPT !.frames = @ + 1,
                                  !.processed = IF d.frames + 1 >= LOOKAHEAD
                                                THEN @ + 1 ELSE @,
                                  !.splat = Tail(@) \o <<0>>])
    ELSE d

\* Denoiser::pop: <<"Frame", meta, d'>>, <<"NotYet", 0, d>> or <<"Done", 0, d>>
Denoiser_pop(d) ==
    IF d.processed > 0
    THEN <<"Frame", d.metadatas[Len(d.metadatas)],
           [d EXCEPT !.processed = @ - 1,
                     !.metadatas = SubSeq(@, 1, Len(@) - 1)]>>
    ELSE IF d.metadatas # <<>> THEN <<"NotYet", 0, d>>
    ELSE <<"Done", 0, d>>

(***************************************************************************)
(* The pipeline: initial state (lib.rs new()).                             *)
(***************************************************************************)
vars == <<ordVars, pipeVars, seqVars, baVars, restVars>>

PipeInit ==
    /\ lossy \in BOOLEAN
    /\ max_threads \in 1 .. MaxThreads
    /\ colAlive = TRUE
    /\ colUnsent = 0 .. ((IF lossy THEN MaxFramesLossy ELSE MaxFrames) - 1)
    /\ colAccepted = {}
    /\ addRes = "none"
    /\ writer = "idle"
    /\ writeRes = "none"
    /\ inq = <<>>
    /\ rz = [w \in 1 .. ResizeThreads |-> Idle]
    /\ rzFailed = FALSE
    /\ dfPc = "next" /\ dfHeap = {} /\ dfNext = 0 /\ dfOrd = 0 /\ dfSeen = <<>>
    /\ denoiser = Denoiser_new /\ dfMsg = 0 /\ dfRes = "none"
    /\ qpPc = "first" /\ qpCur = 0 /\ qpHeld = 0 /\ qpIdx = 0 /\ qpKeeps = FALSE
    /\ qpImpZero = FALSE
    /\ qpMsg = NoMsg /\ qpRes = "none"
    /\ qch = <<>>
    /\ qw = [w \in 1 .. QuantThreads |-> Idle]
    /\ qFailed = FALSE
    /\ rmPc = "next" /\ rmHeap = {} /\ rmNext = 0 /\ rmIdx = 0
    /\ rmMsg = NoMsg /\ rmRes = "none" /\ rmSeen = <<>>
    /\ lz = [w \in 1 .. LzwThreads |-> Idle]
    /\ lzFailed = FALSE
    /\ lzq = <<>>
    /\ wrPc = "next" /\ wrHeap = {} /\ wrNext = 0 /\ n_done = 0
    /\ written = <<>> /\ wrRes = "none" /\ abortAt = 0

Running == writer = "running"

(***************************************************************************)
(* collector.rs: Collector::add_frame_rgba / _png_data / _png_file.        *)
(***************************************************************************)
\* some Receiver of the input queue exists: Writer::queue_iter before write()
\* is called, the clones held by the resize workers afterwards
InputReceivers ==
    \/ writer = "idle"
    \/ writer = "running" /\ ~AllDone(rz)

\* queue.send(..) succeeds: there is room in the bounded queue
AddFrameOk(i) ==
    /\ colAlive
    /\ i \in colUnsent
    /\ InputReceivers
    /\ Len(inq) < InputDepth
    /\ inq' = Append(inq, i)
    /\ colUnsent' = colUnsent \ {i}
    /\ colAccepted' = colAccepted \cup {i}
    /\ addRes' = "Ok"
    /\ UNCHANGED <<colAlive, writer, writeRes, rzVars, dfVars, qpVars, qch, qwVars,
                   rmVars, lzVars, lzq, wrVars>>
    /\ UNCHANGED <<lossy, max_threads, ordVars, seqVars, baVars, restVars>>

\* a mutation of AddFrameErr: the error is converted as a RecvError is
AddFrameErr_AsRecvError(i) ==
    /\ colAlive
    /\ i \in colUnsent
    /\ ~InputReceivers
    /\ addRes' = "Aborted"
    /\ UNCHANGED <<colAlive, colUnsent, colAccepted, writer, writeRes, inq, rzVars, dfVars,
                   qpVars, qch, qwVars, rmVars, lzVars, lzq, wrVars>>
    /\ UNCHANGED <<lossy, max_threads, ordVars, seqVars, baVars, restVars>>

\* queue.send(..) fails with SendError, converted by From<SendError> for Error
\* (the frame was not taken: the caller may pass the same index again)
AddFrameErr(i) ==
    /\ colAlive
    /\ i \in colUnsent
    /\ ~InputReceivers
    /\ addRes' = "ThreadSend"
    /\ UNCHANGED <<colAlive, colUnsent, colAccepted, writer, writeRes, inq, rzVars, dfVars, qpVars,
                   qch, qwVars, rmVars, lzVars, lzq, wrVars>>
    /\ UNCHANGED <<lossy, max_threads, ordVars, seqVars, baVars, restVars>>

\* drop(collector)
DropCollector ==
    /\ colAlive
    /\ colAlive' = FALSE
    /\ UNCHANGED <<colUnsent, colAccepted, addRes, writer, writeRes, inq, rzVars, dfVars,
                   qpVars, qch, qwVars, rmVars, lzVars, lzq, wrVars>>
    /\ UNCHANGED <<lossy, max_threads, ordVars, seqVars, baVars, restVars>>

\* Writer::write is called: write_inner spawns the stage threads
StartWrite ==
    /\ writer = "idle"
    /\ writer' = "running"
    /\ UNCHANGED <<colVars, writeRes, inq, rzVars, dfVars, qpVars, qch, qwVars, rmVars,
                   lzVars, lzq, wrVars>>
    /\ UNCHANGED <<lossy, max_threads, ordVars, seqVars, baVars, restVars>>

\* the Writer is dropped without write() having been called
DropWriter ==
    /\ writer = "idle"
    /\ writer' = "dropped"
    /\ UNCHANGED <<colVars, writeRes, inq, rzVars, dfVars, qpVars, qch, qwVars, rmVars,
                   lzVars, lzq, wrVars>>
    /\ UNCHANGED <<lossy, max_threads, ordVars, seqVars, baVars, restVars>>

(***************************************************************************)
(* lib.rs make_resize: the consumer closure run by each resize worker.     *)
(***************************************************************************)
\* for frame in inputs: a frame is received
RzRecv(w) ==
    /\ w \in DOMAIN rz
    /\ Running
    /\ rz[w].pc = "recv"
    /\ inq # <<>>
    /\ rz' = [rz EXCEPT ![w] = Worker("got", Head(inq), "none")]
    /\ inq' = Tail(inq)
    /\ UNCHANGED <<colVars, writer, writeRes, rzFailed, dfVars, qpVars, qch, qwVars, rmVars,
                   lzVars, lzq, wrVars>>
    /\ UNCHANGED <<lossy, max_threads, ordVars, seqVars, baVars, restVars>>

\* a mutation of RzClosed: the worker goes on waiting after the Collector is dropped
RzClosed_Waits(w) ==
    /\ w \in DOMAIN rz
    /\ FALSE
    /\ UNCHANGED vars

\* a mutation of RzClosed: the loop ends on an empty queue, Collector alive or not
RzClosed_OnEmpty(w) ==
    /\ w \in DOMAIN rz
    /\ Running
    /\ rz[w].pc = "recv"
    /\ inq = <<>>
    /\ rz' = [rz EXCEPT ![w] = Finished("Ok")]
    /\ UNCHANGED <<colVars, writer, writeRes, inq, rzFailed, dfVars, qpVars, qch, qwVars,
                   rmVars, lzVars, lzq, wrVars>>
    /\ UNCHANGED <<lossy, max_threads, ordVars, seqVars, baVars, restVars>>

\* for frame in inputs: the queue is empty and the Collector is dropped
RzClosed(w) ==
    /\ w \in DOMAIN rz
    /\ Running
    /\ rz[w].pc = "recv"
    /\ inq = <<>>
    /\ ~colAlive
    /\ rz' = [rz EXCEPT ![w] = Finished("Ok")]
    /\ UNCHANGED <<colVars, writer, writeRes, inq, rzFailed, dfVars, qpVars, qch, qwVars,
                   rmVars, lzVars, lzq, wrVars>>
    /\ UNCHANGED <<lossy, max_threads, ordVars, seqVars, baVars, restVars>>

\* if abort.load(Relaxed) { return Err(Error::Aborted) }
RzAbort(w) ==
    /\ w \in DOMAIN rz
    /\ rz[w].pc = "got"
    /\ rzFailed
    /\ rz' = [rz EXCEPT ![w] = Finished("Aborted")]
    /\ UNCHANGED <<colVars, writer, writeRes, inq, rzFailed, dfVars, qpVars, qch, qwVars,
                   rmVars, lzVars, lzq, wrVars>>
    /\ UNCHANGED <<lossy, max_threads, ordVars, seqVars, baVars, restVars>>

\* decoding or resizing fails: the worker returns the error, new_scope sets the flag
RzFail(w) ==
    /\ w \in DOMAIN rz
    /\ rz[w].pc = "got"
    /\ ~rzFailed
    /\ rz' = [rz EXCEPT ![w] = Finished("PNG")]
    /\ rzFailed' = TRUE
    /\ UNCHANGED <<colVars, writer, writeRes, inq, dfVars, qpVars, qch, qwVars, rmVars,
                   lzVars, lzq, wrVars>>
    /\ UNCHANGED <<lossy, max_threads, ordVars, seqVars, baVars, restVars>>

\* the frame is decoded, resized and blurred
RzResize(w) ==
    /\ w \in DOMAIN rz
    /\ rz[w].pc = "got"
    /\ ~rzFailed
    /\ rz' = [rz EXCEPT ![w].pc = "send"]
    /\ UNCHANGED <<colVars, writer, writeRes, inq, rzFailed, dfVars, qpVars, qch, qwVars,
                   rmVars, lzVars, lzq, wrVars>>
    /\ UNCHANGED <<lossy, max_threads, ordVars, seqVars, baVars, restVars>>

\* diff_queue.send(frame_index, ..) meets the recv() of make_diffs (depth 0)
RzSend(w) ==
    /\ w \in DOMAIN rz
    /\ rz[w].pc = "send"
    /\ dfPc = "next"
    /\ MustReceive(dfHeap, dfNext)
    /\ dfHeap' = dfHeap \cup {<<rz[w].m, rz[w].m>>}
    /\ rz' = [rz EXCEPT ![w] = Idle]
    /\ UNCHANGED <<colVars, writer, writeRes, inq, rzFailed, dfPc, dfNext, dfOrd, dfSeen, denoiser,
                   dfMsg, dfRes, qpVars, qch, qwVars, rmVars, lzVars, lzq, wrVars>>
    /\ UNCHANGED <<lossy, max_threads, ordVars, seqVars, baVars, restVars>>

\* diff_queue.send fails: make_diffs has returned and dropped the receiver
RzSendErr(w) ==
    /\ w \in DOMAIN rz
    /\ rz[w].pc = "send"
    /\ dfPc = "done"
    /\ rz' = [rz EXCEPT ![w] = Finished("ThreadSend")]
    /\ rzFailed' = TRUE
    /\ UNCHANGED <<colVars, writer, writeRes, inq, dfVars, qpVars, qch, qwVars, rmVars,
                   lzVars, lzq, wrVars>>
    /\ UNCHANGED <<lossy, max_threads, ordVars, seqVars, baVars, restVars>>

(***************************************************************************)
(* lib.rs make_diffs: one thread; inputs is the OrdQueueIter of diff_queue *)
(* (depth 0), diffs the Sender of quant_queue (depth 0).                   *)
(***************************************************************************)
\* inputs.next() can leave its loop: the expected index heads the buffer, or
\* recv() returns Err because every resize worker has dropped its sender
DfReady ==
    /\ Running
    /\ dfPc = "next"
    /\ IF MustReceive(dfHeap, dfNext) THEN AllDone(rz) ELSE TRUE

\* the match on denoiser.pop() for the denoiser state d
DfPop(d) ==
    LET r == Denoiser_pop(d) IN
    /\ denoiser' = r[3]
    /\ IF r[1] = "Frame" THEN dfPc' = "send" /\ dfMsg' = r[2] /\ UNCHANGED dfRes
       ELSE IF r[1] = "NotYet" THEN UNCHANGED <<dfPc, dfMsg, dfRes>>
       ELSE dfPc' = "done" /\ dfRes' = "Ok" /\ UNCHANGED dfMsg

\* inputs.next() returns Some(frame): the frame is pushed into the denoiser
DfFeed ==
    /\ DfReady
    /\ dfHeap # {}
    /\ dfHeap' = dfHeap \ {HeapPeek(dfHeap)}
    /\ dfNext' = dfNext + 1
    /\ dfOrd' = dfOrd + 1
    /\ dfSeen' = Append(dfSeen, HeapPeek(dfHeap)[1])
    /\ DfPop(Denoiser_push_frame(denoiser, dfOrd + 1))
    /\ UNCHANGED <<colVars, writer, writeRes, inq, rzVars, qpVars, qch, qwVars, rmVars,
                   lzVars, lzq, wrVars>>
    /\ UNCHANGED <<lossy, max_threads, ordVars, seqVars, baVars, restVars>>

\* a mutation of DfWrongSize: push_frame queues the metadata before it looks at
\* the size of the frame
DfWrongSize_QueuesFirst ==
    /\ DfReady
    /\ dfHeap # {}
    /\ dfHeap' = dfHeap \ {HeapPeek(dfHeap)}
    /\ dfNext' = dfNext + 1
    /\ dfPc' = "done"
    /\ dfRes' = "WrongSize"
    /\ dfSeen' = Append(dfSeen, HeapPeek(dfHeap)[1])
    /\ denoiser' = [denoiser EXCEPT !.metadatas = <<dfOrd + 1>> \o @]
    /\ UNCHANGED <<colVars, writer, writeRes, inq, rzVars, dfOrd, dfMsg, qpVars,
                   qch, qwVars, rmVars, lzVars, lzq, wrVars>>
    /\ UNCHANGED <<lossy, max_threads, ordVars, seqVars, baVars, restVars>>

\* Denoiser::new or push_frame fails: Err(WrongSize)
DfWrongSize ==
    /\ DfReady
    /\ dfHeap # {}
    /\ dfHeap' = dfHeap \ {HeapPeek(dfHeap)}
    /\ dfNext' = dfNext + 1
    /\ dfPc' = "done"
    /\ dfRes' = "WrongSize"
    /\ dfSeen' = Append(dfSeen, HeapPeek(dfHeap)[1])
    /\ UNCHANGED <<colVars, writer, writeRes, inq, rzVars, dfOrd, denoiser, dfMsg, qpVars,
                   qch, qwVars, rmVars, lzVars, lzq, wrVars>>
    /\ UNCHANGED <<lossy, max_threads, ordVars, seqVars, baVars, restVars>>

\* a mutation of DfFlush: inputs.next() returns None as soon as recv() fails,
\* whatever the buffer still holds
DfFlush_NoDump ==
    /\ DfReady
    /\ MustReceive(dfHeap, dfNext)
    /\ IF dfOrd = 0
       THEN dfPc' = "done" /\ dfRes' = "NoFrames" /\ UNCHANGED <<denoiser, dfMsg>>
       ELSE DfPop(Denoiser_flush(denoiser))
    /\ UNCHANGED <<colVars, writer, writeRes, inq, rzVars, dfHeap, dfNext, dfOrd, dfSeen, qpVars,
                   qch, qwVars, rmVars, lzVars, lzq, wrVars>>
    /\ UNCHANGED <<lossy, max_threads, ordVars, seqVars, baVars, restVars>>

\* inputs.next() returns None: Err(NoFrames) for the first frame, else flush()
DfFlush ==
    /\ DfReady
    /\ dfHeap = {}
    /\ IF dfOrd = 0
       THEN dfPc' = "done" /\ dfRes' = "NoFrames" /\ UNCHANGED <<denoiser, dfMsg>>
       ELSE DfPop(Denoiser_flush(denoiser))
    /\ UNCHANGED <<colVars, writer, writeRes, inq, rzVars, dfHeap, dfNext, dfOrd, dfSeen, qpVars,
                   qch, qwVars, rmVars, lzVars, lzq, wrVars>>
    /\ UNCHANGED <<lossy, max_threads, ordVars, seqVars, baVars, restVars>>

(***************************************************************************)
(* lib.rs quantize_frames: the producer closure of minipool::new_channel.  *)
(***************************************************************************)
\* the producer moves on to its next_frame n (0 for None)
QpAdvance(n) ==
    /\ qpCur' = n
    /\ qpHeld' = 0
    /\ IF n = 0 THEN qpPc' = "done" /\ qpRes' = "Ok"
       ELSE qpPc' = "next" /\ UNCHANGED qpRes

\* a mutation of QpLook: frame_index also counts the frames skipped as identical
QpLook_CountsSkipped(n) ==
    \/ /\ n # 0
       /\ QpAdvance(n)
       /\ qpIdx' = qpIdx + 1
       /\ UNCHANGED <<qpKeeps, qpImpZero, qpMsg>>
    \/ /\ ~qpKeeps \/ ~qpImpZero
       /\ qpPc' = "send"
       /\ qpMsg' = <<qpIdx, qpCur>>
       /\ qpHeld' = n
       /\ UNCHANGED <<qpCur, qpIdx, qpKeeps, qpImpZero, qpRes>>
    \/ /\ qpKeeps /\ qpImpZero
       /\ QpAdvance(n)
       /\ qpImpZero' = FALSE
       /\ UNCHANGED <<qpIdx, qpKeeps, qpMsg>>

\* the body of the while loop once next_frame = n (0 for None) is known:
\* continue (next_image == image, the importance map of the run's first frame
\* is kept), send a QuantizeMessage, or drop the frame (prev_frame_keeps and
\* an all-zero importance map).  After a send or a drop importance_map is
\* None and the next iteration takes the map of frame n, which differs from
\* its predecessor: Acc::next_pixel gives importance 0 only together with
\* the pixel of the previous denoised frame, so that map is not all-zero.
QpLook(n) ==
    \/ /\ n # 0
       /\ QpAdvance(n)
       /\ UNCHANGED <<qpIdx, qpKeeps, qpImpZero, qpMsg>>
    \/ /\ ~qpKeeps \/ ~qpImpZero
       /\ qpPc' = "send"
       /\ qpMsg' = <<qpIdx, qpCur>>
       /\ qpHeld' = n
       /\ UNCHANGED <<qpCur, qpIdx, qpKeeps, qpImpZero, qpRes>>
    \/ /\ qpKeeps /\ qpImpZero
       /\ QpAdvance(n)
       /\ qpImpZero' = FALSE
       /\ UNCHANGED <<qpIdx, qpKeeps, qpMsg>>

\* diffs.send(DiffMessage) meets inputs.next() of the producer (depth 0)
DfSend ==
    /\ dfPc = "send"
    /\ qpPc \in {"first", "next"}
    /\ dfPc' = "next"
    /\ IF qpPc = "first"
       THEN /\ qpCur' = dfMsg
            /\ qpPc' = "next"
            /\ \E zero \in BOOLEAN : qpImpZero' = zero
            /\ UNCHANGED <<qpHeld, qpIdx, qpKeeps, qpMsg, qpRes>>
       ELSE QpLook(dfMsg)
    /\ UNCHANGED <<colVars, writer, writeRes, inq, rzVars, dfHeap, dfNext, dfOrd, dfSeen, denoiser,
                   dfMsg, dfRes, qch, qwVars, rmVars, lzVars, lzq, wrVars>>
    /\ UNCHANGED <<lossy, max_threads, ordVars, seqVars, baVars, restVars>>

\* diffs.send fails: the producer has returned and dropped the receiver
DfSendErr ==
    /\ dfPc = "send"
    /\ qpPc = "done"
    /\ dfPc' = "done"
    /\ dfRes' = "ThreadSend"
    /\ UNCHANGED <<colVars, writer, writeRes, inq, rzVars, dfHeap, dfNext, dfOrd, dfSeen, denoiser,
                   dfMsg, qpVars, qch, qwVars, rmVars, lzVars, lzq, wrVars>>
    /\ UNCHANGED <<lossy, max_threads, ordVars, seqVars, baVars, restVars>>

\* inputs.next() of the producer returns None: make_diffs has returned
QpClosed ==
    /\ Running
    /\ qpPc \in {"first", "next"}
    /\ dfPc = "done"
    /\ IF qpPc = "first"
       THEN /\ qpPc' = "done"
            /\ qpRes' = "NoFrames"
            /\ qFailed' = TRUE
            /\ UNCHANGED <<qpCur, qpHeld, qpIdx, qpKeeps, qpImpZero, qpMsg>>
       ELSE QpLook(0) /\ UNCHANGED qFailed
    /\ UNCHANGED <<colVars, writer, writeRes, inq, rzVars, dfVars, qch, qw, rmVars,
                   lzVars, lzq, wrVars>>
    /\ UNCHANGED <<lossy, max_threads, ordVars, seqVars, baVars, restVars>>

\* quant_queue.send(QuantizeMessage) into the bounded(2) channel
QpSend ==
    /\ qpPc = "send"
    /\ ~AllDone(qw)
    /\ Len(qch) < QuantDepth
    /\ qch' = Append(qch, qpMsg)
    /\ qpIdx' = qpIdx + 1
    /\ \E keep \in BOOLEAN : qpKeeps' = keep
    /\ qpImpZero' = FALSE
    /\ qpMsg' = NoMsg
    /\ QpAdvance(qpHeld)
    /\ UNCHANGED <<colVars, writer, writeRes, inq, rzVars, dfVars, qwVars, rmVars,
                   lzVars, lzq, wrVars>>
    /\ UNCHANGED <<lossy, max_threads, ordVars, seqVars, baVars, restVars>>

\* quant_queue.send fails: every quantizer worker has returned
QpSendErr ==
    /\ qpPc = "send"
    /\ AllDone(qw)
    /\ qpPc' = "done"
    /\ qpRes' = "ThreadSend"
    /\ qFailed' = TRUE
    /\ UNCHANGED <<colVars, writer, writeRes, inq, rzVars, dfVars, qpCur, qpHeld, qpIdx,
                   qpKeeps, qpImpZero, qpMsg, qch, qw, rmVars, lzVars, lzq, wrVars>>
    /\ UNCHANGED <<lossy, max_threads, ordVars, seqVars, baVars, restVars>>

(***************************************************************************)
(* minipool::new_channel consumer loop and the quantizer closure.          *)
(***************************************************************************)
\* for m in r: a QuantizeMessage is received
QwRecv(w) ==
    /\ w \in DOMAIN qw
    /\ Running
    /\ qw[w].pc = "recv"
    /\ qch # <<>>
    /\ qw' = [qw EXCEPT ![w] = Worker("got", Head(qch), "none")]
    /\ qch' = Tail(qch)
    /\ UNCHANGED <<colVars, writer, writeRes, inq, rzVars, dfVars, qpVars, qFailed, rmVars,
                   lzVars, lzq, wrVars>>
    /\ UNCHANGED <<lossy, max_threads, ordVars, seqVars, baVars, restVars>>

\* for m in r: the channel is empty and the producer has dropped the sender
QwClosed(w) ==
    /\ w \in DOMAIN qw
    /\ Running
    /\ qw[w].pc = "recv"
    /\ qch = <<>>
    /\ qpPc = "done"
    /\ qw' = [qw EXCEPT ![w] = Finished("Ok")]
    /\ UNCHANGED <<colVars, writer, writeRes, inq, rzVars, dfVars, qpVars, qch, qFailed,
                   rmVars, lzVars, lzq, wrVars>>
    /\ UNCHANGED <<lossy, max_threads, ordVars, seqVars, baVars, restVars>>

\* if should_abort.load(Relaxed) { break } ... Ok(())
QwAbort(w) ==
    /\ w \in DOMAIN qw
    /\ qw[w].pc = "got"
    /\ qFailed
    /\ qw' = [qw EXCEPT ![w] = Finished("Ok")]
    /\ UNCHANGED <<colVars, writer, writeRes, inq, rzVars, dfVars, qpVars, qch, qFailed,
                   rmVars, lzVars, lzq, wrVars>>
    /\ UNCHANGED <<lossy, max_threads, ordVars, seqVars, baVars, restVars>>

\* self.quantize(..) fails
QwFail(w) ==
    /\ w \in DOMAIN qw
    /\ qw[w].pc = "got"
    /\ ~qFailed
    /\ qw' = [qw EXCEPT ![w] = Finished("Quant")]
    /\ qFailed' = TRUE
    /\ UNCHANGED <<colVars, writer, writeRes, inq, rzVars, dfVars, qpVars, qch, rmVars,
                   lzVars, lzq, wrVars>>
    /\ UNCHANGED <<lossy, max_threads, ordVars, seqVars, baVars, restVars>>

\* self.quantize(..) succeeds
QwQuantize(w) ==
    /\ w \in DOMAIN qw
    /\ qw[w].pc = "got"
    /\ ~qFailed
    /\ qw' = [qw EXCEPT ![w].pc = "send"]
    /\ UNCHANGED <<colVars, writer, writeRes, inq, rzVars, dfVars, qpVars, qch, qFailed,
                   rmVars, lzVars, lzq, wrVars>>
    /\ UNCHANGED <<lossy, max_threads, ordVars, seqVars, baVars, restVars>>

\* remap_queue.send(frame_index, RemapMessage) meets the recv() of remap_frames
QwSend(w) ==
    /\ w \in DOMAIN qw
    /\ qw[w].pc = "send"
    /\ rmPc = "next"
    /\ MustReceive(rmHeap, rmNext)
    /\ rmHeap' = rmHeap \cup {qw[w].m}
    /\ qw' = [qw EXCEPT ![w] = Idle]
    /\ UNCHANGED <<colVars, writer, writeRes, inq, rzVars, dfVars, qpVars, qch, qFailed,
                   rmPc, rmNext, rmIdx, rmMsg, rmRes, rmSeen, lzVars, lzq, wrVars>>
    /\ UNCHANGED <<lossy, max_threads, ordVars, seqVars, baVars, restVars>>

\* remap_queue.send fails: remap_frames has returned
QwSendErr(w) ==
    /\ w \in DOMAIN qw
    /\ qw[w].pc = "send"
    /\ rmPc = "done"
    /\ qw' = [qw EXCEPT ![w] = Finished("ThreadSend")]
    /\ qFailed' = TRUE
    /\ UNCHANGED <<colVars, writer, writeRes, inq, rzVars, dfVars, qpVars, qch, rmVars,
                   lzVars, lzq, wrVars>>
    /\ UNCHANGED <<lossy, max_threads, ordVars, seqVars, baVars, restVars>>

(***************************************************************************)
(* lib.rs remap_frames: one thread; inputs is the OrdQueueIter of          *)
(* remap_queue (depth 0), write_queue a crossbeam channel of depth 0.      *)
(***************************************************************************)
RmReady ==
    /\ Running
    /\ rmPc = "next"
    /\ IF MustReceive(rmHeap, rmNext) THEN AllDone(qw) ELSE TRUE

\* inputs.next() returns Some(RemapMessage); remap, trim and blit succeed
RmRemap ==
    /\ RmReady
    /\ rmHeap # {}
    /\ rmHeap' = rmHeap \ {HeapPeek(rmHeap)}
    /\ rmNext' = rmNext + 1
    /\ rmSeen' = Append(rmSeen, HeapPeek(rmHeap)[1])
    /\ rmMsg' = <<rmIdx, HeapPeek(rmHeap)[2]>>
    /\ rmPc' = "send"
    /\ UNCHANGED <<colVars, writer, writeRes, inq, rzVars, dfVars, qpVars, qch, qwVars,
                   rmIdx, rmRes, lzVars, lzq, wrVars>>
    /\ UNCHANGED <<lossy, max_threads, ordVars, seqVars, baVars, restVars>>

\* inputs.next() returns Some(RemapMessage); self.remap or then_blit fails
RmFail ==
    /\ RmReady
    /\ rmHeap # {}
    /\ rmHeap' = rmHeap \ {HeapPeek(rmHeap)}
    /\ rmNext' = rmNext + 1
    /\ rmSeen' = Append(rmSeen, HeapPeek(rmHeap)[1])
    /\ rmPc' = "done"
    /\ rmRes' = "Pal"
    /\ UNCHANGED <<colVars, writer, writeRes, inq, rzVars, dfVars, qpVars, qch, qwVars,
                   rmIdx, rmMsg, lzVars, lzq, wrVars>>
    /\ UNCHANGED <<lossy, max_threads, ordVars, seqVars, baVars, restVars>>

\* inputs.next() returns None: Err(NoFrames) for the first frame, else Ok(())
RmEnd ==
    /\ RmReady
    /\ rmHeap = {}
    /\ rmPc' = "done"
    /\ rmRes' = IF rmNext = 0 THEN "NoFrames" ELSE "Ok"
    /\ UNCHANGED <<colVars, writer, writeRes, inq, rzVars, dfVars, qpVars, qch, qwVars,
                   rmHeap, rmNext, rmIdx, rmMsg, rmSeen, lzVars, lzq, wrVars>>
    /\ UNCHANGED <<lossy, max_threads, ordVars, seqVars, baVars, restVars>>

\* write_queue.send(FrameMessage) meets the recv() of LZW worker w (depth 0)
RmSend(w) ==
    /\ w \in DOMAIN lz
    /\ rmPc = "send"
    /\ lz[w].pc = "recv"
    /\ lz' = [lz EXCEPT ![w] = Worker("got", rmMsg, "none")]
    /\ rmIdx' = rmIdx + 1
    /\ rmMsg' = NoMsg
    /\ rmPc' = "next"
    /\ UNCHANGED <<colVars, writer, writeRes, inq, rzVars, dfVars, qpVars, qch, qwVars,
                   rmHeap, rmNext, rmRes, rmSeen, lzFailed, lzq, wrVars>>
    /\ UNCHANGED <<lossy, max_threads, ordVars, seqVars, baVars, restVars>>

\* write_queue.send fails: every LZW worker has returned
RmSendErr ==
    /\ rmPc = "send"
    /\ AllDone(lz)
    /\ rmPc' = "done"
    /\ rmRes' = "ThreadSend"
    /\ UNCHANGED <<colVars, writer, writeRes, inq, rzVars, dfVars, qpVars, qch, qwVars,
                   rmHeap, rmNext, rmIdx, rmMsg, rmSeen, lzVars, lzq, wrVars>>
    /\ UNCHANGED <<lossy, max_threads, ordVars, seqVars, baVars, restVars>>

(***************************************************************************)
(* lib.rs write_frames: the consumer closure run by each LZW worker.       *)
(***************************************************************************)
\* for .. in write_queue: remap_frames has returned and dropped the sender
LzClosed(w) ==
    /\ w \in DOMAIN lz
    /\ Running
    /\ lz[w].pc = "recv"
    /\ rmPc = "done"
    /\ lz' = [lz EXCEPT ![w] = Finished("Ok")]
    /\ UNCHANGED <<colVars, writer, writeRes, inq, rzVars, dfVars, qpVars, qch, qwVars,
                   rmVars, lzFailed, lzq, wrVars>>
    /\ UNCHANGED <<lossy, max_threads, ordVars, seqVars, baVars, restVars>>

\* if abort.load(Relaxed) { return Err(Error::Aborted) }
LzAbort(w) ==
    /\ w \in DOMAIN lz
    /\ lz[w].pc = "got"
    /\ lzFailed
    /\ lz' = [lz EXCEPT ![w] = Finished("Aborted")]
    /\ UNCHANGED <<colVars, writer, writeRes, inq, rzVars, dfVars, qpVars, qch, qwVars,
                   rmVars, lzFailed, lzq, wrVars>>
    /\ UNCHANGED <<lossy, max_threads, ordVars, seqVars, baVars, restVars>>

\* compress_frame fails: compress_gifsicle returns an error (lossy LZW only)
LzFail(w) ==
    /\ w \in DOMAIN lz
    /\ lossy
    /\ lz[w].pc = "got"
    /\ ~lzFailed
    /\ lz' = [lz EXCEPT ![w] = Finished("Gifsicle")]
    /\ lzFailed' = TRUE
    /\ UNCHANGED <<colVars, writer, writeRes, inq, rzVars, dfVars, qpVars, qch, qwVars,
                   rmVars, lzq, wrVars>>
    /\ UNCHANGED <<lossy, max_threads, ordVars, seqVars, baVars, restVars>>

\* compress_frame succeeds
LzCompress(w) ==
    /\ w \in DOMAIN lz
    /\ lz[w].pc = "got"
    /\ ~lzFailed
    /\ lz' = [lz EXCEPT ![w].pc = "send"]
    /\ UNCHANGED <<colVars, writer, writeRes, inq, rzVars, dfVars, qpVars, qch, qwVars,
                   rmVars, lzFailed, lzq, wrVars>>
    /\ UNCHANGED <<lossy, max_threads, ordVars, seqVars, baVars, restVars>>

\* lzw_queue.send(frame_index, ..) into the channel of depth 2
LzSend(w) ==
    /\ w \in DOMAIN lz
    /\ lz[w].pc = "send"
    /\ wrPc # "done"
    /\ Len(lzq) < LzwDepth
    /\ lzq' = Append(lzq, lz[w].m)
    /\ lz' = [lz EXCEPT ![w] = Idle]
    /\ UNCHANGED <<colVars, writer, writeRes, inq, rzVars, dfVars, qpVars, qch, qwVars,
                   rmVars, lzFailed, wrVars>>
    /\ UNCHANGED <<lossy, max_threads, ordVars, seqVars, baVars, restVars>>

\* lzw_queue.send fails: the writer closure has returned and dropped lzw_recv
LzSendErr(w) ==
    /\ w \in DOMAIN lz
    /\ lz[w].pc = "send"
    /\ wrPc = "done"
    /\ lz' = [lz EXCEPT ![w] = Finished("ThreadSend")]
    /\ lzFailed' = TRUE
    /\ UNCHANGED <<colVars, writer, writeRes, inq, rzVars, dfVars, qpVars, qch, qwVars,
                   rmVars, lzq, wrVars>>
    /\ UNCHANGED <<lossy, max_threads, ordVars, seqVars, baVars, restVars>>

(***************************************************************************)
(* lib.rs write_frames: the waiter closure (the serial writer).            *)
(***************************************************************************)
\* lzw_recv.next(): recv() returns Ok(item)
WrRecv ==
    /\ Running
    /\ wrPc = "next"
    /\ MustReceive(wrHeap, wrNext)
    /\ lzq # <<>>
    /\ wrHeap' = wrHeap \cup {Head(lzq)}
    /\ lzq' = Tail(lzq)
    /\ UNCHANGED <<colVars, writer, writeRes, inq, rzVars, dfVars, qpVars, qch, qwVars,
                   rmVars, lzVars, wrPc, wrNext, n_done, written, wrRes, abortAt>>
    /\ UNCHANGED <<lossy, max_threads, ordVars, seqVars, baVars, restVars>>

WrReady ==
    /\ Running
    /\ wrPc = "next"
    /\ IF MustReceive(wrHeap, wrNext) THEN lzq = <<>> /\ AllDone(lz) ELSE TRUE

\* the frame at the head of the buffer is taken and passed to enc.write_frame
WrTake ==
    /\ WrReady
    /\ wrHeap # {}
    /\ wrHeap' = wrHeap \ {HeapPeek(wrHeap)}
    /\ wrNext' = wrNext + 1
    /\ written' = Append(written, HeapPeek(wrHeap)[1])

\* a mutation of WrAborted: the writer goes on after increase() returned false
WrAborted_GoesOn ==
    /\ WrTake
    /\ n_done < HeapPeek(wrHeap)[2]
    /\ \E k \in (n_done + 1) .. HeapPeek(wrHeap)[2] : n_done' = k
    /\ abortAt' = IF abortAt = 0 THEN Len(written) + 1 ELSE abortAt
    /\ UNCHANGED <<colVars, writer, writeRes, inq, rzVars, dfVars, qpVars, qch, qwVars,
                   rmVars, lzVars, lzq, wrPc, wrRes>>
    /\ UNCHANGED <<lossy, max_threads, ordVars, seqVars, baVars, restVars>>

\* a mutation of WrWritten: increase() is called once per written frame
WrWritten_OncePerWrite ==
    /\ WrTake
    /\ n_done' = IF n_done < HeapPeek(wrHeap)[2] THEN n_done + 1 ELSE n_done
    /\ UNCHANGED <<colVars, writer, writeRes, inq, rzVars, dfVars, qpVars, qch, qwVars,
                   rmVars, lzVars, lzq, wrPc, wrRes, abortAt>>
    /\ UNCHANGED <<lossy, max_threads, ordVars, seqVars, baVars, restVars>>

\* write_frame succeeds and every call of reporter.increase() returns true
WrWritten ==
    /\ WrTake
    /\ n_done' = IF n_done < HeapPeek(wrHeap)[2] THEN HeapPeek(wrHeap)[2] ELSE n_done
    /\ UNCHANGED <<colVars, writer, writeRes, inq, rzVars, dfVars, qpVars, qch, qwVars,
                   rmVars, lzVars, lzq, wrPc, wrRes, abortAt>>
    /\ UNCHANGED <<lossy, max_threads, ordVars, seqVars, baVars, restVars>>

\* write_frame succeeds, a call of reporter.increase() returns false:
\* return Err(Error::Aborted)
WrAborted ==
    /\ WrTake
    /\ n_done < HeapPeek(wrHeap)[2]
    /\ \E k \in (n_done + 1) .. HeapPeek(wrHeap)[2] : n_done' = k
    /\ wrPc' = "done"
    /\ wrRes' = "Aborted"
    /\ lzFailed' = TRUE
    /\ abortAt' = Len(written) + 1
    /\ UNCHANGED <<colVars, writer, writeRes, inq, rzVars, dfVars, qpVars, qch, qwVars,
                   rmVars, lz, lzq>>
    /\ UNCHANGED <<lossy, max_threads, ordVars, seqVars, baVars, restVars>>

\* write_frame fails with an I/O error
WrIoError ==
    /\ WrTake
    /\ wrPc' = "done"
    /\ wrRes' = "Io"
    /\ lzFailed' = TRUE
    /\ UNCHANGED <<colVars, writer, writeRes, inq, rzVars, dfVars, qpVars, qch, qwVars,
                   rmVars, lz, lzq, n_done, abortAt>>
    /\ UNCHANGED <<lossy, max_threads, ordVars, seqVars, baVars, restVars>>

\* lzw_recv.next() returns None: Err(NoFrames) if n_done == 0, else Ok(())
WrEnd ==
    /\ WrReady
    /\ wrHeap = {}
    /\ wrPc' = "done"
    /\ wrRes' = IF n_done = 0 THEN "NoFrames" ELSE "Ok"
    /\ lzFailed' = (lzFailed \/ n_done = 0)
    /\ UNCHANGED <<colVars, writer, writeRes, inq, rzVars, dfVars, qpVars, qch, qwVars,
                   rmVars, lz, lzq, wrHeap, wrNext, n_done, written, abortAt>>
    /\ UNCHANGED <<lossy, max_threads, ordVars, seqVars, baVars, restVars>>

(***************************************************************************)
(* lib.rs write_inner: the stage results are joined and combined.          *)
(***************************************************************************)
AllStagesDone ==
    /\ AllDone(rz) /\ dfPc = "done" /\ qpPc = "done" /\ AllDone(qw)
    /\ rmPc = "done" /\ AllDone(lz) /\ wrPc = "done"

\* res0 .. res4 of write_inner
res0 == new_scope(wrRes, lz)
res1 == new_scope("Ok", rz)
res2 == dfRes
res3 == new_scope(qpRes, qw)
res4 == rmRes

WriteReturn ==
    /\ Running
    /\ AllStagesDone
    /\ writer' = "done"
    /\ writeRes' = combine_res(combine_res(combine_res(res0, res1),
                                           combine_res(res2, res3)), res4)
    /\ UNCHANGED <<colVars, inq, rzVars, dfVars, qpVars, qch, qwVars, rmVars, lzVars,
                   lzq, wrVars>>
    /\ UNCHANGED <<lossy, max_threads, ordVars, seqVars, baVars, restVars>>

\* the caller's threads: the Collector's owner and the Writer's owner
CallerNext ==
    \/ \E i \in 0 .. (MaxFrames - 1) : AddFrameOk(i)
    \/ \E i \in 0 .. (MaxFrames - 1) : AddFrameErr(i)
    \/ DropCollector
    \/ StartWrite
    \/ DropWriter

\* the threads spawned by write_inner and its pools, and the return of write()
StageNext ==
    \/ \E w \in 1 .. MaxThreads :
         RzRecv(w) \/ RzClosed(w) \/ RzAbort(w) \/ RzFail(w) \/ RzResize(w)
         \/ RzSend(w) \/ RzSendErr(w)
    \/ DfFeed \/ DfWrongSize \/ DfFlush \/ DfSend \/ DfSendErr
    \/ QpClosed \/ QpSend \/ QpSendErr
    \/ \E w \in 1 .. MaxThreads :
         QwRecv(w) \/ QwClosed(w) \/ QwAbort(w) \/ QwFail(w) \/ QwQuantize(w)
         \/ QwSend(w) \/ QwSendErr(w)
    \/ RmRemap \/ RmFail \/ RmEnd \/ RmSendErr
    \/ \E w \in 1 .. 3 :
         RmSend(w) \/ LzClosed(w) \/ LzAbort(w) \/ LzFail(w) \/ LzCompress(w)
         \/ LzSend(w) \/ LzSendErr(w)
    \/ WrRecv \/ WrWritten \/ WrAborted \/ WrIoError \/ WrEnd
    \/ WriteReturn

PipeNext == CallerNext \/ StageNext

Init == OrdInit /\ PipeInit /\ SeqIdle /\ BaIdle /\ RestIdle

Next == PipeNext

Spec == Init /\ [][Next]_vars

\* the ordered queue on its own: the pipeline stays in its initial state
SpecOrd == Init /\ [][OrdNext]_vars

\* the same with the operating system's scheduler: a thread that can take a
\* step is not left waiting forever
FairSpec == Spec /\ WF_vars(StageNext)

(***************************************************************************)
(* Claims about the pipeline.                                              *)
(***************************************************************************)
Increasing(s) == \A k \in 1 .. Len(s) - 1 : s[k] < s[k + 1]

\* the results of every stage thread and pool worker that has returned
StageResults ==
    ({wrRes, dfRes, qpRes, rmRes}
       \cup {rz[w].res : w \in DOMAIN rz}
       \cup {qw[w].res : w \in DOMAIN qw}
       \cup {lz[w].res : w \in DOMAIN lz}) \ {"none"}

\* C2: whatever the schedule of the resize, quantizer and LZW pools and the
\* order of add_frame calls, the frames passed to enc.write_frame have strictly
\* increasing frame_index, and so have the RemapMessages taken by remap_frames.
C2_PipelineOrder == Increasing(written) /\ Increasing(rmSeen)

\* C2 witness: three RemapMessages were processed, a frame was written, and a
\* later frame reached the writer before the one that is due.
C2_Witness ==
    /\ Len(rmSeen) >= 3
    /\ Len(written) >= 1
    /\ \E x \in wrHeap : x[1] > wrNext

\* C4 (as claimed): when increase() has returned false and no stage failed
\* with an error of its own, write() returns Aborted.
C4_AbortReturnsAborted ==
    (writer = "done" /\ abortAt > 0 /\ StageResults \cap RealErrors = {})
        => writeRes = "Aborted"

\* C5: once increase() has returned false on the call made for the k-th written
\* frame, the writer has stopped and exactly k frames were passed to write_frame,
\* at every later moment up to and after the return of write().
C5_NoWriteAfterAbort == abortAt > 0 => (wrPc = "done" /\ Len(written) = abortAt)

\* C5 witness: write() has returned after an abort on the second frame while a
\* third compressed frame was waiting for the writer.
C5_Witness ==
    /\ writer = "done"
    /\ abortAt = 2
    /\ (wrHeap # {} \/ lzq # <<>>)

\* C6 (as claimed): when some stage or worker failed with a real error, write()
\* returns a real error, not Aborted, ThreadSend or NoFrames.
C6_RealErrorWins ==
    (writer = "done" /\ StageResults \cap RealErrors # {}) => writeRes \in RealErrors

C8_WriteReturns ==
    /\ (Running /\ ~colAlive) ~> (writer = "done")
    /\ [](writer = "done" => AllStagesDone)

\* C8 witness: write() has returned after a failure in a pool, with workers
\* that ended on a failed send.
C8_Witness ==
    /\ writer = "done"
    /\ "ThreadSend" \in StageResults
    /\ StageResults \cap RealErrors # {}

\* an add_frame call returns in this step
AddFrameStep == \E i \in 0 .. (MaxFrames - 1) : AddFrameOk(i) \/ AddFrameErr(i)

\* C9: add_frame returns Err only when no Receiver of the input queue is left;
\* the queue never holds more than min(5, max_threads) frames, a call made
\* while it is full does not return, and before write() is called no more
\* calls than that have returned.
C9_CollectorContract ==
    /\ [](Len(inq) <= Min2(5, max_threads))
    /\ []((InputReceivers /\ Len(inq) = Min2(5, max_threads)) => ~ENABLED AddFrameStep)
    /\ [](writer = "idle" => Cardinality(colAccepted) <= Min2(5, max_threads))
    /\ [](addRes \notin {"none", "Ok"} => ~InputReceivers)
    /\ [][AddFrameStep => (addRes' = "Ok" <=> InputReceivers)]_vars

\* C9 witness: write() has not been called, two threads, two frames accepted,
\* the queue is full and the caller has another frame to add.
C9_Witness ==
    /\ writer = "idle"
    /\ colAlive
    /\ max_threads = 2
    /\ Len(inq) = 2
    /\ colUnsent # {}

\* the pipeline has been cancelled or a stage has failed
PipelineAborted == abortAt > 0 \/ StageResults \ {"Ok"} # {}

\* C10 (as claimed): once the pipeline has been cancelled or has aborted, an
\* add_frame call returns Aborted.
C10_NextAddAborted == [][(PipelineAborted /\ AddFrameStep) => addRes' = "Aborted"]_vars

\* C10 (amended): add_frame never returns Aborted.  A call returns
\* Err(ThreadSend) once no Receiver of the input queue is left (the Writer was
\* dropped, or write() has returned or every resize worker has), and until
\* then it returns Ok, after a cancellation or a failure too.
C10_NextAddThreadSend ==
    /\ [](addRes \in {"none", "Ok", "ThreadSend"})
    /\ [][AddFrameStep => addRes' = (IF InputReceivers THEN "Ok" ELSE "ThreadSend")]_vars

\* C10 witness: the pipeline has aborted while write() runs, and the Collector,
\* still alive, got an error from add_frame.
C10_Witness ==
    /\ Running
    /\ colAlive
    /\ PipelineAborted
    /\ addRes = "ThreadSend"

(***************************************************************************)
(* c_api_error.rs: From<CatResult<()>> for GifskiError (what gifski_finish *)
(* returns for the result of the write thread).                            *)
(***************************************************************************)
GifskiError(res) ==
    CASE res = "Ok" -> "OK"
      [] res = "Quant" -> "QUANT"
      [] res = "Pal" -> "GIF"
      [] res = "ThreadSend" -> "THREAD_LOST"
      [] res = "Io" -> "IO_KIND"
      [] res = "Aborted" -> "ABORTED"
      [] res = "Gifsicle" -> "GIF"
      [] res = "NoFrames" -> "INVALID_STATE"
      [] res = "WrongSize" -> "INVALID_INPUT"
      [] res = "PNG" -> "OTHER"

\* C11 (as claimed): when no frame was added before the Collector was dropped,
\* write() returns NoFrames without writing a frame and gifski_finish returns
\* INVALID_STATE; and write() returns NoFrames only when no stage or worker
\* ended with a real error.
C11_NoFramesOnly ==
    /\ (writer = "done" /\ colAccepted = {})
         => /\ writeRes = "NoFrames"
            /\ written = <<>>
            /\ GifskiError(writeRes) = "INVALID_STATE"
    /\ (writer = "done" /\ writeRes = "NoFrames") => StageResults \cap RealErrors = {}

\* C11, the part about an empty input alone
C11_EmptyInput ==
    (writer = "done" /\ colAccepted = {})
        => /\ writeRes = "NoFrames"
           /\ written = <<>>
           /\ GifskiError(writeRes) = "INVALID_STATE"

\* C12: when write() has returned Ok, reporter.increase() has been called
\* exactly once per frame the Collector accepted (n_done counts the calls),
\* duplicates that were skipped included; and the calls are made only by the
\* step that writes a frame, for input frames up to the ordinal number that
\* the written frame carries.
C12_IncreaseOncePerFrame ==
    /\ []((writer = "done" /\ writeRes = "Ok") => n_done = Cardinality(colAccepted))
    /\ [][n_done' # n_done =>
            /\ wrHeap # {}
            /\ written' = Append(written, HeapPeek(wrHeap)[1])
            /\ n_done < n_done'
            /\ n_done' <= HeapPeek(wrHeap)[2]]_vars

\* a successful run in which fewer frames were written than were added
C12_Witness ==
    /\ writer = "done"
    /\ writeRes = "Ok"
    /\ Cardinality(colAccepted) >= 3
    /\ n_done = Cardinality(colAccepted)
    /\ Len(written) = 2

(***************************************************************************)
(* One encode followed frame by frame (lib.rs make_diffs, quantize_frames, *)
(* write_frames).  A timestamp is a whole number of milliseconds.          *)
(***************************************************************************)
\* the longest animation followed
MaxSeqFrames == 3
\* the presentation timestamps tried: 0.0, 0.01, 0.015, 0.1, 1.2, 1.3 and 400 s
PtsValues == {0, 10, 15, 100, 1200, 1300, 400000}

\* RGBA8::new(0,0,0,0), and an opaque pixel of colour c
Clear == [c |-> 0, a |-> 0]
Solid(c) == [c |-> c, a |-> 255]
\* the denoised images tried where the timing is looked at
TimeImages == {<<Solid(1), Solid(1)>>, <<Solid(2), Solid(1)>>}

Max2(a, b) == IF a >= b THEN a ELSE b

\* Animations of n frames.  image is the frame as the denoiser returns it and
\* imp_zero tells that its importance map is all-zero: Acc::next_pixel gives
\* importance 0 only with the pixel it returned for the frame before.
Frames(images, timestamps, n) ==
    {f \in [1 .. n -> [image : images, pts : timestamps, imp_zero : BOOLEAN]] :
        \A k \in 2 .. n : f[k].imp_zero => f[k].image = f[k - 1].image}

\* LastFrameDuration::value and ::shift_every_pts_by
value(lfd) == lfd[2]
shift_every_pts_by(lfd) == IF lfd[1] = "FixedOffset" THEN lfd[2] ELSE 0

\* a mutation of FirstFrameDuration: the first timestamp never shifts
FirstFrameDuration_NoShift(pts) == <<"FrameRate", 0>>
\* make_diffs: last_frame_duration as the first frame sets it
FirstFrameDuration(pts) ==
    IF pts > 10 THEN <<"FixedOffset", pts>> ELSE <<"FrameRate", 0>>

\* make_diffs has taken its first frame and made the denoiser
SeqInit(inputs) ==
    /\ sqIn \in inputs
    /\ sqPc = "diffs"
    /\ sqNext = 1
    /\ ordinal_frame_number = 0
    /\ last_frame_duration = FirstFrameDuration(sqIn[1].pts)
    /\ last_frame_pts = 0
    /\ sqDenoiser = Denoiser_new
    /\ sqDiffs = <<>>
    /\ sqCur = 0
    /\ prev_frame_keeps = FALSE
    /\ frame_index = 0
    /\ importance_map = "None"
    /\ sqQuant = <<>>
    /\ screen = <<>>
    /\ sqFrames = <<>>
    /\ pts_in_delay_units = 0
    /\ sqOut = <<>>

\* make_diffs, the match on denoiser.pop() for the denoiser state d
SqConsume(d) ==
    LET r == Denoiser_pop(d) IN
    /\ sqDenoiser' = r[3]
    /\ IF r[1] = "Frame"
       THEN /\ sqDiffs' = Append(sqDiffs,
                  [ordinal_frame_number |-> r[2][1],
                   image |-> sqIn[r[2][1]].image,
                   imp_zero |-> sqIn[r[2][1]].imp_zero,
                   pts |-> r[2][2],
                   frame_duration |-> Max2(value(r[2][3]), 10)])
            /\ UNCHANGED <<sqPc, sqCur>>
       ELSE IF r[1] = "NotYet" THEN UNCHANGED <<sqDiffs, sqPc, sqCur>>
       ELSE sqPc' = "quant" /\ sqCur' = 1 /\ UNCHANGED sqDiffs

\* make_diffs, one turn of the loop with next_frame = Some(frame)
SqFeed ==
    /\ sqPc = "diffs"
    /\ sqNext <= Len(sqIn)
    /\ LET pts == sqIn[sqNext].pts - shift_every_pts_by(last_frame_duration)
           lfd == IF last_frame_duration[1] = "FrameRate"
                  THEN <<"FrameRate", pts - last_frame_pts>>
                  ELSE last_frame_duration
       IN /\ ordinal_frame_number' = ordinal_frame_number + 1
          /\ last_frame_duration' = lfd
          /\ last_frame_pts' = pts
          /\ SqConsume(Denoiser_push_frame(sqDenoiser, <<ordinal_frame_number + 1, pts, lfd>>))
    /\ sqNext' = sqNext + 1
    /\ UNCHANGED <<sqIn, prev_frame_keeps, frame_index, importance_map, sqQuant,
                   screen, sqFrames, pts_in_delay_units, sqOut>>
    /\ UNCHANGED <<ordVars, pipeVars, baVars, restVars>>

\* make_diffs, one turn of the loop with next_frame = None
SqFlush ==
    /\ sqPc = "diffs"
    /\ sqNext > Len(sqIn)
    /\ SqConsume(Denoiser_flush(sqDenoiser))
    /\ UNCHANGED <<sqIn, sqNext, ordinal_frame_number, last_frame_duration, last_frame_pts,
                   prev_frame_keeps, frame_index, importance_map, sqQuant,
                   screen, sqFrames, pts_in_delay_units, sqOut>>
    /\ UNCHANGED <<ordVars, pipeVars, baVars, restVars>>

\* quantize_frames: first_frame.pixels().any(|px| px.a < 128)
HasTransparency(image) == \E i \in DOMAIN image : image[i].a < 128

\* a mutation of Dispose: the frame is always kept
Dispose_AlwaysKeep(image, has_next, next_image, first_frame_has_transparency) == "Keep"
\* quantize_frames: the disposal method of a frame that is not skipped
Dispose(image, has_next, next_image, first_frame_has_transparency) ==
    IF has_next
    THEN IF \E i \in DOMAIN image : next_image[i].a < image[i].a
         THEN "Background" ELSE "Keep"
    ELSE IF first_frame_has_transparency THEN "Background" ELSE "Keep"

\* a mutation of Identical: no two frames are taken for identical
Identical_Never(image, next_image) == FALSE
\* quantize_frames: next_image.as_ref() == image.as_ref()
Identical(image, next_image) == next_image = image

\* quantize_frames: end_pts of the frame cur
\* a mutation of EndPts: the last frame ends where it starts
EndPts_NoDuration(cur, has_next, next) == IF has_next THEN next.pts ELSE cur.pts
\* quantize_frames: end_pts of the frame sent
EndPts(cur, has_next, next) == IF has_next THEN next.pts ELSE cur.pts + cur.frame_duration

\* quantize_frames, one turn of the producer's while loop
SqQuantize ==
    /\ sqPc = "quant"
    /\ LET cur == sqDiffs[sqCur]
           has_next == sqCur < Len(sqDiffs)
           next == sqDiffs[IF has_next THEN sqCur + 1 ELSE sqCur]
           imp == IF importance_map = "None"
                  THEN (IF cur.imp_zero THEN "zero" ELSE "nonzero")
                  ELSE importance_map
           dispose == Dispose(cur.image, has_next, next.image, HasTransparency(sqDiffs[1].image))
       IN IF has_next /\ Identical(cur.image, next.image)
          THEN /\ importance_map' = imp
               /\ sqCur' = sqCur + 1
               /\ UNCHANGED <<sqPc, prev_frame_keeps, frame_index, sqQuant>>
          ELSE /\ importance_map' = "None"
               /\ IF ~prev_frame_keeps \/ imp = "nonzero"
                  THEN /\ sqQuant' = Append(sqQuant,
                             [image |-> cur.image,
                              ordinal_frame_number |-> cur.ordinal_frame_number,
                              frame_index |-> frame_index,
                              prev_frame_keeps |-> prev_frame_keeps,
                              dispose |-> dispose,
                              end_pts |-> EndPts(cur, has_next, next),
                              has_next_frame |-> has_next])
                       /\ frame_index' = frame_index + 1
                       /\ prev_frame_keeps' = (dispose = "Keep")
                  ELSE UNCHANGED <<sqQuant, frame_index, prev_frame_keeps>>
               /\ sqCur' = IF has_next THEN sqCur + 1 ELSE 0
               /\ sqPc' = IF has_next THEN "quant" ELSE "remap"
    /\ UNCHANGED <<sqIn, sqNext, ordinal_frame_number, last_frame_duration, last_frame_pts,
                   sqDenoiser, sqDiffs, screen, sqFrames, pts_in_delay_units, sqOut>>
    /\ UNCHANGED <<ordVars, pipeVars, baVars, restVars>>

(***************************************************************************)
(* The quantizer closure of quantize_frames and remap_frames.  A frame is  *)
(* one row of pixels.  image8 holds palette indices: 0 is the transparent  *)
(* index and c > 0 the palette entry of the opaque colour c.               *)
(***************************************************************************)
\* gif_dispose::Screen::new: a transparent canvas that owes no disposal
Screen_new(width) ==
    [pixels |-> [i \in 1 .. width |-> Clear], dispose |-> "Keep", left |-> 0, width |-> 0]

\* Screen::dispose_only: the pixels once the disposal of the last frame is done
dispose_only(scr) ==
    [i \in DOMAIN scr.pixels |->
        IF scr.dispose = "Background" /\ i > scr.left /\ i <= scr.left + scr.width
        THEN Clear ELSE scr.pixels[i]]

\* then_blit: the sub-image is drawn at left, transparent pixels draw nothing,
\* and the screen owes the frame's disposal
then_blit(pixels, dispose, left, image8) ==
    [pixels |-> [i \in DOMAIN pixels |->
                    IF i > left /\ i <= left + Len(image8) /\ image8[i - left] # 0
                    THEN Solid(image8[i - left]) ELSE pixels[i]],
     dispose |-> dispose, left |-> left, width |-> Len(image8)]

\* the quantizer closure: with prev_frame_keeps, and when the settings and
\* frame_index say so (clear), pixels of importance 0 (the set zero) are
\* replaced by RGBA8::new(0,0,0,0)
ClearUnimportant(image, prev_keeps, clear, zero) ==
    [i \in DOMAIN image |-> IF prev_keeps /\ clear /\ i \in zero THEN Clear ELSE image[i]]

\* trim_image: is_matching_pixel
is_matching_pixel(px, bg, dispose) ==
    IF px = 0 THEN (dispose = "Keep" \/ bg.a = 0) ELSE Solid(px) = bg

\* trim_image for a frame of one row: <<left, width>>, or <<>> for None
trim_image(image8, dispose, bg) ==
    LET W == Len(image8)
        matching(x) == is_matching_pixel(image8[x], bg[x], dispose)
        left == Cardinality({x \in 1 .. W - 1 : \A y \in 1 .. x : matching(y)})
        right == Cardinality({x \in left + 2 .. W : \A y \in x .. W : matching(y)})
    IN IF \A x \in 1 .. W : matching(x) THEN <<>> ELSE <<left, W - left - right>>

\* a mutation of MayCrop: the last frame is cropped like the others
MayCrop_LastToo(index, has_next_frame) == index # 0
\* remap_frames: frame_index != 0 && has_next_frame
MayCrop(index, has_next_frame) == index # 0 /\ has_next_frame

\* the quantizer closure and remap_frames for the next QuantizeMessage.  What
\* imagequant's remap returns is not fixed here: a transparent pixel gets the
\* transparent index, an opaque one its colour or, where the background set
\* for the remap has the same colour, the transparent index.
SqRemap ==
    /\ sqPc = "remap"
    /\ Len(sqFrames) < Len(sqQuant)
    /\ LET index == Len(sqFrames)
           m == sqQuant[index + 1]
           W == Len(m.image)
           scr == IF index = 0 THEN Screen_new(W) ELSE screen
           bg == dispose_only(scr)
           same == IF index = 0 THEN {}
                   ELSE {i \in 1 .. W : m.image[i] = sqQuant[index].image[i]}
       IN \E clear \in BOOLEAN : \E zero \in SUBSET same :
          LET image == ClearUnimportant(m.image, m.prev_frame_keeps, clear, zero) IN
          \E image8 \in [1 .. W -> 0 .. 2] :
             /\ \A i \in 1 .. W :
                   \/ image[i].a = 0 /\ image8[i] = 0
                   \/ image[i].a = 255 /\ image8[i] = image[i].c
                   \/ image[i].a = 255 /\ index # 0 /\ bg[i] = image[i] /\ image8[i] = 0
             /\ LET t == IF MayCrop(index, m.has_next_frame)
                         THEN trim_image(image8, m.dispose, bg) ELSE <<0, W>>
                    left == IF t = <<>> THEN 0 ELSE t[1]
                    new_width == IF t = <<>> THEN 1 ELSE t[2]
                    sub == SubSeq(image8, left + 1, left + new_width)
                IN /\ screen' = then_blit(bg, m.dispose, left, sub)
                   /\ sqFrames' = Append(sqFrames,
                          [frame_index |-> index,
                           ordinal_frame_number |-> m.ordinal_frame_number,
                           end_pts |-> m.end_pts,
                           screen_width |-> W,
                           frame |-> [left |-> left, image |-> sub, dispose |-> m.dispose]])
    /\ UNCHANGED <<sqIn, sqPc, sqNext, ordinal_frame_number, last_frame_duration,
                   last_frame_pts, sqDenoiser, sqDiffs, sqCur, prev_frame_keeps, frame_index,
                   importance_map, sqQuant, pts_in_delay_units, sqOut>>
    /\ UNCHANGED <<ordVars, pipeVars, baVars, restVars>>

\* remap_frames: inputs.next() returns None
SqRemapEnd ==
    /\ sqPc = "remap"
    /\ Len(sqFrames) = Len(sqQuant)
    /\ sqPc' = "write"
    /\ UNCHANGED <<sqIn, sqNext, ordinal_frame_number, last_frame_duration, last_frame_pts,
                   sqDenoiser, sqDiffs, sqCur, prev_frame_keeps, frame_index, importance_map,
                   sqQuant, screen, sqFrames, pts_in_delay_units, sqOut>>
    /\ UNCHANGED <<ordVars, pipeVars, baVars, restVars>>

\* (end_pts * 100_f64).round() as u64: halves round away from zero and a
\* negative number becomes 0
RoundToDelayUnits(end_pts) == IF end_pts <= 0 THEN 0 ELSE (end_pts + 5) \div 10
\* u64::saturating_sub
saturating_sub(a, b) == IF a >= b THEN a - b ELSE 0
\* a mutation of clamp: the lower limit is not applied
clamp_NoMin(x, lo, hi) == IF x > hi THEN hi ELSE x
\* Ord::clamp
clamp(x, lo, hi) == IF x < lo THEN lo ELSE IF x > hi THEN hi ELSE x

\* write_frames, the writer closure: one frame is given its delay and written
SqWrite ==
    /\ sqPc = "write"
    /\ Len(sqOut) < Len(sqFrames)
    /\ LET m == sqFrames[Len(sqOut) + 1]
           delay == clamp(saturating_sub(RoundToDelayUnits(m.end_pts), pts_in_delay_units),
                          2, 30000)
       IN /\ pts_in_delay_units' = pts_in_delay_units + delay
          /\ sqOut' = Append(sqOut, [delay |-> delay,
                                     end_pts |-> m.end_pts,
                                     image |-> sqQuant[Len(sqOut) + 1].image,
                                     frame |-> m.frame,
                                     dispose |-> m.frame.dispose,
                                     frame_index |-> m.frame_index,
                                     ordinal_frame_number |-> m.ordinal_frame_number])
    /\ UNCHANGED <<sqIn, sqPc, sqNext, ordinal_frame_number, last_frame_duration,
                   last_frame_pts, sqDenoiser, sqDiffs, sqCur, prev_frame_keeps, frame_index,
                   importance_map, sqQuant, screen, sqFrames>>
    /\ UNCHANGED <<ordVars, pipeVars, baVars, restVars>>

\* write_frames, the writer closure: lzw_recv has no more frames
SqWriteEnd ==
    /\ sqPc = "write"
    /\ Len(sqOut) = Len(sqFrames)
    /\ sqPc' = "done"
    /\ UNCHANGED <<sqIn, sqNext, ordinal_frame_number, last_frame_duration, last_frame_pts,
                   sqDenoiser, sqDiffs, sqCur, prev_frame_keeps, frame_index, importance_map,
                   sqQuant, screen, sqFrames, pts_in_delay_units, sqOut>>
    /\ UNCHANGED <<ordVars, pipeVars, baVars, restVars>>

SeqNext == SqFeed \/ SqFlush \/ SqQuantize \/ SqRemap \/ SqRemapEnd \/ SqWrite \/ SqWriteEnd

\* the pipeline untouched, with one thread and the lossless encoder
PipeIdle == PipeInit /\ ~lossy /\ max_threads = 1

\* animations of up to MaxSeqFrames frames with the timestamps of PtsValues
TimeInit ==
    /\ OrdInit
    /\ PipeIdle
    /\ BaIdle
    /\ RestIdle
    /\ \E n \in 1 .. MaxSeqFrames : SeqInit(Frames(TimeImages, PtsValues, n))

SpecTime == TimeInit /\ [][SeqNext]_vars

\* the denoised images tried where the pixels are looked at
PixImages == [1 .. 2 -> {Clear, Solid(1), Solid(2)}]

\* animations of up to MaxSeqFrames frames, one frame every 100 ms
PixInit ==
    /\ OrdInit
    /\ PipeIdle
    /\ BaIdle
    /\ RestIdle
    /\ \E n \in 1 .. MaxSeqFrames :
          SeqInit({f \in Frames(PixImages, {0, 100, 200}, n) :
                      \A k \in 1 .. n : f[k].pts = 100 * (k - 1)})

SpecPix == PixInit /\ [][SeqNext]_vars

(***************************************************************************)
(* lib.rs resized_binary_alpha and dither_image, for an image that already *)
(* has its target size.  A pixel is [c, a]: one colour channel (the three  *)
(* are treated alike) and alpha, both u8.                                  *)
(***************************************************************************)
\* the width of the images tried
BaWidth == 3
\* the alpha and colour values tried, and the matte colours
AlphaValues == {0, 7, 8, 11, 88, 89, 104, 240, 254, 255}
ColourValues == {10, 255}
MatteValues == {<<>>, <<0>>, <<200>>}

\* dither_image: const DITHER
DITHER ==
    << 0*2+8, 48*2+8, 12*2+8, 60*2+8,  3*2+8, 51*2+8, 15*2+8, 63*2+8,
      32*2+8, 16*2+8, 44*2+8, 28*2+8, 35*2+8, 19*2+8, 47*2+8, 31*2+8,
       8*2+8, 56*2+8,  4*2+8, 52*2+8, 11*2+8, 59*2+8,  7*2+8, 55*2+8,
      40*2+8, 24*2+8, 36*2+8, 20*2+8, 43*2+8, 27*2+8, 39*2+8, 23*2+8,
       2*2+8, 50*2+8, 14*2+8, 62*2+8,  1*2+8, 49*2+8, 13*2+8, 61*2+8,
      34*2+8, 18*2+8, 46*2+8, 30*2+8, 33*2+8, 17*2+8, 45*2+8, 29*2+8,
      10*2+8, 58*2+8,  6*2+8, 54*2+8,  9*2+8, 57*2+8,  5*2+8, 53*2+8,
      42*2+8, 26*2+8, 38*2+8, 22*2+8, 41*2+8, 25*2+8, 37*2+8, 21*2+8 >>

\* dither_image: is_edge
is_edge(a, b) == (a < 12 /\ b >= 240) \/ (b < 12 /\ a >= 240)

\* dither_image: anti_aliasing at position x (from 0) of a one-row image;
\* loop9 repeats the pixels of the border, so top, mid and bot are this row
anti_aliasing(image, x) ==
    LET curr == image[x + 1].a
        prev == image[IF x = 0 THEN 1 ELSE x].a
        next == image[IF x + 1 = Len(image) THEN x + 1 ELSE x + 2].a
    IN /\ curr # 255 /\ curr # 0
       /\ \/ is_edge(curr, curr)
          \/ is_edge(prev, next)

\* dither_image: the pixel at position x (from 0) of row y
dither_pixel(image, x, y) ==
    LET px == image[x + 1] IN
    IF px.a < 255
    THEN IF anti_aliasing(image, x)
         THEN [px EXCEPT !.a = IF px.a < 89 THEN 0 ELSE 255]
         ELSE [px EXCEPT !.a = IF px.a < DITHER[((y % 8) * 8 + (x % 8)) + 1] THEN 0 ELSE 255]
    ELSE px

\* a mutation of MatteApplies: transparent pixels are blended too
MatteApplies_AlsoClear(px) == px.a < 255
\* resized_binary_alpha: filter(|px| px.a < 255 && px.a > 0)
MatteApplies(px) == px.a < 255 /\ px.a > 0

\* resized_binary_alpha: a pixel blended with the matte colour (u16 arithmetic)
matte_pixel(px, matte) ==
    LET alpha == px.a
        inv_alpha == (255 - alpha) % 65536
    IN [c |-> (((((px.c * alpha) % 65536) + ((matte * inv_alpha) % 65536)) % 65536) \div 255) % 256,
        a |-> 255]

\* resized_binary_alpha with Some(matte)
BaMatte ==
    /\ baPc = "start"
    /\ baMatte # <<>>
    /\ baImage' = [i \in DOMAIN baImage |->
                      IF MatteApplies(baImage[i]) THEN matte_pixel(baImage[i], baMatte[1])
                      ELSE baImage[i]]
    /\ baPc' = "done"
    /\ UNCHANGED <<baMatte, baIn>>
    /\ UNCHANGED <<ordVars, pipeVars, seqVars, restVars>>

\* resized_binary_alpha with no matte: dither_image
BaDither ==
    /\ baPc = "start"
    /\ baMatte = <<>>
    /\ baImage' = [i \in DOMAIN baImage |-> dither_pixel(baImage, i - 1, 0)]
    /\ baPc' = "done"
    /\ UNCHANGED <<baMatte, baIn>>
    /\ UNCHANGED <<ordVars, pipeVars, seqVars, restVars>>

BaNext == BaMatte \/ BaDither

\* every image of BaWidth pixels over the values tried, with every matte
BaInit ==
    /\ OrdInit
    /\ PipeIdle
    /\ SeqIdle
    /\ RestIdle
    /\ baImage \in [1 .. BaWidth -> [c : ColourValues, a : AlphaValues]]
    /\ baMatte \in MatteValues
    /\ baIn = baImage
    /\ baPc = "start"

SpecAlpha == BaInit /\ [][BaNext]_vars

(***************************************************************************)
(* Claims about the frames and their timing.                               *)
(***************************************************************************)
\* the last frame of every maximal run of identical denoised frames
RunEnds ==
    {k \in 1 .. Len(sqDiffs) :
        k = Len(sqDiffs) \/ sqDiffs[k + 1].image # sqDiffs[k].image}

\* C13: once the producer of quantize_frames has finished, it has sent one
\* QuantizeMessage per maximal run of identical denoised frames, in order;
\* the message carries the ordinal number of the last frame of its run, and
\* its end_pts is the pts of the frame after the run or, for the run that
\* ends the animation, the pts of the last frame plus its frame_duration.
C13_DuplicateElision ==
    sqPc \in {"remap", "write", "done"} =>
        /\ \A k \in 1 .. Len(sqDiffs) : sqDiffs[k].ordinal_frame_number = k
        /\ Len(sqQuant) = Cardinality(RunEnds)
        /\ \A j \in 1 .. Len(sqQuant) :
              LET k == sqQuant[j].ordinal_frame_number IN
              /\ k \in RunEnds
              /\ j > 1 => sqQuant[j - 1].ordinal_frame_number < k
              /\ sqQuant[j].image = sqDiffs[k].image
              /\ sqQuant[j].end_pts =
                    IF k < Len(sqDiffs) THEN sqDiffs[k + 1].pts
                    ELSE sqDiffs[k].pts + sqDiffs[k].frame_duration

\* [F, F, F] at 0.1, 1.2 and 1.3 s was written as one frame of delay 130
C13_Witness ==
    /\ sqPc = "done"
    /\ Len(sqIn) = 3
    /\ sqIn[1].image = sqIn[2].image /\ sqIn[2].image = sqIn[3].image
    /\ <<sqIn[1].pts, sqIn[2].pts, sqIn[3].pts>> = <<100, 1200, 1300>>
    /\ Len(sqOut) = 1
    /\ sqOut[1].delay = 130
    /\ sqOut[1].ordinal_frame_number = 3
RECURSIVE SumOfDelays(_, _)
\* the sum of the delays of the first n written frames
SumOfDelays(out, n) == IF n = 0 THEN 0 ELSE SumOfDelays(out, n - 1) + out[n].delay

\* C14: the delay of every written frame is round(end_pts * 100) less the sum
\* of the delays written before it, brought into 2 .. 30000 (a difference
\* below 2, an end_pts behind that sum included, gives 2).
C14_DelayClamped ==
    \A j \in 1 .. Len(sqOut) :
        LET rounded == (sqOut[j].end_pts + 5) \div 10
            diff == rounded - SumOfDelays(sqOut, j - 1)
        IN /\ sqOut[j].delay = IF diff < 2 THEN 2 ELSE IF diff > 30000 THEN 30000 ELSE diff
           /\ sqOut[j].delay \in 2 .. 30000

\* a frame was written with the longest delay and the next one, whose end_pts
\* lies behind the delays already written, with the shortest
C14_Witness ==
    /\ Len(sqOut) >= 2
    /\ sqOut[1].delay = 30000
    /\ sqOut[2].end_pts < 10 * sqOut[1].delay
    /\ sqOut[2].delay = 2
\* C15 (as claimed): when the encode is over, a frame whose timestamp is not
\* above that of the frame before it has not been written: no written frame
\* carries its ordinal number.  Only frames whose picture differs from the one
\* before and the one after are looked at, so that the frame is not one that
\* the duplicate elision merges.
C15_OutOfOrderDropped ==
    sqPc = "done" =>
        \A k \in 2 .. Len(sqIn) :
            (/\ sqIn[k].pts <= sqIn[k - 1].pts
             /\ sqIn[k].image # sqIn[k - 1].image
             /\ k < Len(sqIn) => sqIn[k].image # sqIn[k + 1].image)
                => \A j \in 1 .. Len(sqOut) : sqOut[j].ordinal_frame_number # k
C17_DisposalChoice ==
    \A j \in 1 .. Len(sqOut) - 1 :
        sqOut[j].dispose =
            IF \E i \in DOMAIN sqOut[j].image :
                  sqOut[j + 1].image[i].a < sqOut[j].image[i].a
            THEN "Background" ELSE "Keep"

\* two frames were written, the second makes an opaque pixel of the first
\* transparent, and the first was written with Background
C17_Witness ==
    /\ sqPc = "done"
    /\ Len(sqOut) = 2
    /\ \E i \in DOMAIN sqOut[1].image :
          sqOut[1].image[i].a = 255 /\ sqOut[2].image[i].a = 0
    /\ sqOut[1].dispose = "Background"
\* the written frame j covers the whole screen
NotCropped(j) ==
    /\ sqOut[j].frame.left = 0
    /\ Len(sqOut[j].frame.image) = Len(sqIn[1].image)

\* C19: the first frame written is not cropped, and when the encode is over
\* the last frame written is not cropped either: left = 0 and the frame is as
\* wide as the screen (frames are one row high, so top = 0 and the height is
\* the screen's).
C19_FirstLastNotCropped ==
    /\ sqOut # <<>> => NotCropped(1)
    /\ sqPc = "done" => NotCropped(Len(sqOut))

\* three frames were written: the middle one cropped, the outer ones whole
C19_Witness ==
    /\ sqPc = "done"
    /\ Len(sqOut) = 3
    /\ sqOut[2].frame.left = 1
    /\ NotCropped(1)
    /\ NotCropped(3)
\* C20: after resized_binary_alpha every pixel has alpha 0 or 255; a pixel
\* that had alpha 255 is unchanged and one that had alpha 0 still has alpha 0;
\* with a matte colour a pixel with 0 < a < 255 is opaque with the colour
\* (c * a + matte * (255 - a)) / 255 and no other pixel is changed.
C20_BinaryAlpha ==
    baPc = "done" =>
        \A i \in DOMAIN baIn :
            /\ baImage[i].a \in {0, 255}
            /\ baIn[i].a = 255 => baImage[i] = baIn[i]
            /\ baIn[i].a = 0 => baImage[i].a = 0
            /\ baMatte # <<>> =>
                  IF baIn[i].a > 0 /\ baIn[i].a < 255
                  THEN baImage[i] =
                          [c |-> (baIn[i].c * baIn[i].a + baMatte[1] * (255 - baIn[i].a)) \div 255,
                           a |-> 255]
                  ELSE baImage[i] = baIn[i]

\* an image with a transparent, a half-transparent and an opaque pixel went
\* through the matte path, the half-transparent pixel changing colour
C20_Witness ==
    /\ baPc = "done"
    /\ baMatte = <<200>>
    /\ baIn[1].a = 0 /\ baIn[2].a = 104 /\ baIn[3].a = 255
    /\ baImage[2].a = 255 /\ baImage[2].c # baIn[2].c

(***************************************************************************)
(* denoise.rs: Acc, the ring of LOOKAHEAD samples kept for one pixel.      *)
(* Position idx of a ring in the source is element idx + 1 here; None is   *)
(* the empty sequence.                                                     *)
(***************************************************************************)
RGB(r, g, b) == [r |-> r, g |-> g, b |-> b]
RGBA(r, g, b, a) == [r |-> r, g |-> g, b |-> b, a |-> a]
\* RGBA8::rgb and RGB8::alpha
rgb(px) == RGB(px.r, px.g, px.b)
alpha(c, a) == RGBA(c.r, c.g, c.b, a)

\* a mutation of AlphaBit: no sample is ever reported transparent
AlphaBit_Never(acc, idx) == FALSE
\* self.alpha_bits & (1 << idx) != 0
AlphaBit(acc, idx) == (acc.alpha_bits \div (2 ^ idx)) % 2 = 1

\* Acc::get: <<actual pixel, blurred pixel>>
get(acc, idx) ==
    IF ~AlphaBit(acc, idx)
    THEN <<RGB(acc.r[idx + 1], acc.g[idx + 1], acc.b[idx + 1]), acc.blur[idx + 1]>>
    ELSE <<>>

\* the loop of Acc::append over one ring; the last entry is written only for
\* an opaque sample
ShiftRing(ring, stored, v) ==
    [n \in 1 .. LOOKAHEAD |->
        IF n < LOOKAHEAD THEN ring[n + 1] ELSE IF stored THEN v ELSE ring[LOOKAHEAD]]

\* Acc::append
append(acc, val, val_blur) ==
    LET opaque == ~(val.a < 128) IN
    [acc EXCEPT !.r = ShiftRing(@, opaque, val.r),
                !.g = ShiftRing(@, opaque, val.g),
                !.b = ShiftRing(@, opaque, val.b),
                !.blur = ShiftRing(@, opaque, val_blur),
                !.alpha_bits = (@ \div 2) + (IF opaque THEN 0 ELSE 2 ^ (LOOKAHEAD - 1))]

\* cohort
cohort(color) == ((color.r \div 2) > color.g) # (color.b > 127)

\* color_diff
color_diff(x, y) ==
    ((x.r - y.r) * (x.r - y.r)) * 2 + ((x.g - y.g) * (x.g - y.g)) * 3
      + ((x.b - y.b) * (x.b - y.b))

\* u32::saturating_mul: a difference is at most 2^20 and a weight at most 205, so
\* the product stays below 2^31 and never saturates
saturating_mul(a, b) == a * b

\* a mutation of pixel_importance: a change of the pixel is not marked
pixel_importance_Unmarked(diff_with_bg, thr, min, max) == 0
\* a mutation of pixel_importance: the quotient is not capped at max
pixel_importance_NoCap(diff_with_bg, thr, min, max) ==
    LET exceeds == saturating_sub(diff_with_bg, thr) IN
    min + (saturating_mul(exceeds, max) \div saturating_mul(thr, 48))
\* pixel_importance
pixel_importance(diff_with_bg, thr, min, max) ==
    LET exceeds == saturating_sub(diff_with_bg, thr) IN
    min + Min2(saturating_mul(exceeds, max) \div saturating_mul(thr, 48), max)

\* avg8
avg8(a, b) == (a + b) \div 2

\* get_median: the median of the first len entries of a ring
get_median(src, len) ==
    LET tmp == SortSeq(SubSeq(src, 1, len), LAMBDA a, b : a < b) IN
    IF len = 1 THEN src[1]
    ELSE IF len = 2 THEN avg8(src[1], src[2])
    ELSE IF len = 3 THEN tmp[2]
    ELSE IF len = 4 THEN avg8(tmp[2], tmp[3])
    ELSE tmp[3]

\* next_pixel, "See how long this bg can stay": the largest i such that every
\* sample 1 .. i of the ring is opaque and close to the current one
StaysFrames(acc, curr, curr_blur, thr) ==
    LET Close(i) == /\ get(acc, i) # <<>>
                    /\ \/ color_diff(get(acc, i)[1], curr) < thr
                       \/ color_diff(get(acc, i)[2], curr_blur) < thr
        S == {i \in 0 .. (LOOKAHEAD - 1) : \A j \in 1 .. i : Close(j)}
    IN CHOOSE i \in S : \A j \in S : j <= i

\* next_pixel, the arm "stayed_for < can_stay_for": the least importance
StayMin(thr, stayed_for) ==
    IF thr <= 300 /\ stayed_for <= 3 THEN 1
    ELSE IF 300 <= thr /\ thr <= 500 /\ stayed_for <= 2 THEN 1
    ELSE IF 400 <= thr /\ thr <= 900 /\ stayed_for <= 1 THEN 1
    ELSE 0

\* Acc::next_pixel: the Acc afterwards, the pixel and its importance
next_pixel(acc, thr0, odd_frame) ==
    IF get(acc, 0) # <<>>
    THEN
      LET curr == get(acc, 0)[1]
          curr_blur == get(acc, 0)[2]
          my_turn == cohort(curr) # odd_frame
          thr == IF my_turn THEN thr0 ELSE thr0 * 2
          diff_with_bg ==
              IF acc.bg_set.a > 0
              THEN LET bg == color_diff(rgb(acc.bg_set), curr)
                       bg_blur == color_diff(rgb(acc.bg_set), curr_blur)
                   IN IF bg < bg_blur THEN bg ELSE (bg + bg_blur) \div 2
              ELSE 2 ^ 20
          stays_frames == StaysFrames(acc, curr, curr_blur, thr)
          smoothed_curr == RGB(get_median(acc.r, stays_frames + 1),
                               get_median(acc.g, stays_frames + 1),
                               get_median(acc.b, stays_frames + 1))
      IN
      IF acc.stayed_for < acc.can_stay_for
      THEN LET stayed == acc.stayed_for + 1
               max == IF stayed > 1 THEN 0
                      ELSE <<0, 40, 80, 100, 110>>[Min2(acc.can_stay_for, 4) + 1]
           IN [acc |-> [acc EXCEPT !.stayed_for = stayed],
               px |-> acc.bg_set,
               imp |-> pixel_importance(diff_with_bg, thr, StayMin(thr, stayed), max)]
      ELSE IF diff_with_bg < thr
      THEN [acc |-> acc, px |-> acc.bg_set, imp |-> 0]
      ELSE IF stays_frames = 0
      THEN [acc |-> [acc EXCEPT !.bg_set = alpha(curr, 255)],
            px |-> alpha(curr, 255),
            imp |-> pixel_importance(diff_with_bg, thr, 10, 110)]
      ELSE [acc |-> [acc EXCEPT !.bg_set = alpha(smoothed_curr, 255),
                                !.can_stay_for = Min2(stays_frames, LOOKAHEAD - 1),
                                !.stayed_for = 0],
            px |-> alpha(smoothed_curr, 255),
            imp |-> IF stays_frames <= 1 THEN pixel_importance(diff_with_bg, thr, 5, 80)
                    ELSE IF stays_frames = 2 THEN pixel_importance(diff_with_bg, thr, 15, 190)
                    ELSE pixel_importance(diff_with_bg, thr, 50, 205)]
    ELSE
      [acc |-> IF acc.bg_set.a > 0
               THEN [acc EXCEPT !.bg_set.a = 0, !.can_stay_for = 0]
               ELSE acc,
       px |-> RGBA(0, 0, 0, 0),
       imp |-> IF acc.bg_set.a > 0 THEN 1 ELSE 0]

(***************************************************************************)
(* denoise.rs: Denoiser::new, push_frame, flush and pop.  The module is    *)
(* private to the crate: its callers are make_diffs and the tests, which   *)
(* push a first frame before anything else and push nothing after a flush. *)
(* Between these, push_frame, flush and pop are called in any order.       *)
(***************************************************************************)
\* the largest number of frames pushed
MaxDnFrames == 6

\* the pixels of the frames pushed: clear, white and a dark colour
DnPixels == {RGBA(0, 0, 0, 0), RGBA(255, 254, 253, 255), RGBA(1, 2, 3, 255)}
\* the frames pushed: one pixel wide, or two pixels wide
DnImages == [1 .. 1 -> DnPixels]
              \cup {<<RGBA(0, 0, 0, 0), RGBA(255, 254, 253, 255)>>,
                    <<RGBA(255, 254, 253, 255), RGBA(255, 254, 253, 255)>>}
\* the motion_quality values tried
DnQualities == {50, 100}

\* median_channel! for an image of one row: loop9 repeats the edge pixels, so
\* the nine neighbours are prev, curr and next three times each
median_channel(prev, curr, next, chan) ==
    SortSeq(<<IF prev.a > 0 THEN prev[chan] ELSE curr[chan],
              curr[chan],
              IF next.a > 0 THEN next[chan] ELSE curr[chan]>>, LAMBDA a, b : a < b)[2]

\* smart_blur
smart_blur(frame) ==
    [x \in 1 .. Len(frame) |->
        LET prev == frame[Max2(x - 1, 1)]
            curr == frame[x]
            next == frame[Min2(x + 1, Len(frame))]
            blurred == RGB(median_channel(prev, curr, next, "r"),
                           median_channel(prev, curr, next, "g"),
                           median_channel(prev, curr, next, "b"))
        IN IF curr.a > 0
           THEN IF color_diff(rgb(curr), blurred) < 16 * 16 * 6 THEN blurred ELSE rgb(curr)
           ELSE RGB(255, 0, 255)]

\* Denoiser::new: threshold
Threshold(quality) == (55 - (quality \div 2)) * (55 - (quality \div 2))

\* Denoiser::new: clear
ClearAcc ==
    [r |-> [n \in 1 .. LOOKAHEAD |-> 0], g |-> [n \in 1 .. LOOKAHEAD |-> 0],
     b |-> [n \in 1 .. LOOKAHEAD |-> 0], blur |-> [n \in 1 .. LOOKAHEAD |-> RGB(0, 0, 0)],
     alpha_bits |-> (2 ^ LOOKAHEAD) - 1, bg_set |-> RGBA(0, 0, 0, 0),
     stayed_for |-> 0, can_stay_for |-> 0]

\* Denoiser::new(width, 1, quality)
DnNew(width, quality) ==
    /\ splat = [x \in 1 .. width |-> ClearAcc]
    /\ frames = 0
    /\ threshold = Threshold(quality)
    /\ processed = <<>>
    /\ metadatas = <<>>
    /\ dnPushes = 0 /\ dnFlushed = FALSE /\ dnLast = <<"new", "Ok">> /\ dnOut = <<>>

\* push_frame and flush: every Acc appends its sample and gives its next pixel
NextPixels(frame, frame_blurred, odd_frame) ==
    [x \in 1 .. Len(splat) |->
        next_pixel(append(splat[x], frame[x], frame_blurred[x]), threshold, odd_frame)]

\* a mutation of WrongSize: only a narrower frame is refused
WrongSize_OnlyNarrower(frame) == Len(frame) < Len(splat)
\* push_frame: frame.width() != self.splat.width() || frame.height() != self.splat.height()
WrongSize(frame) == Len(frame) # Len(splat)

\* a mutation of CanOutput: the ring counts as full one frame early
CanOutput_OneEarly(n) == n >= LOOKAHEAD - 1
\* push_frame and flush: the ring is full (not self.frames < LOOKAHEAD)
CanOutput(n) == n >= LOOKAHEAD

\* Denoiser::push_frame
DnPush ==
    /\ dnLast[1] # "idle"
    /\ ~dnFlushed
    /\ dnPushes < MaxDnFrames
    /\ \E frame \in DnImages :
         IF WrongSize(frame)
         THEN /\ dnLast' = <<"push_frame", "Err", Len(frame)>>
              /\ UNCHANGED <<splat, frames, processed, metadatas, dnPushes>>
         ELSE LET out == NextPixels(frame, smart_blur(frame), (frames + 1) % 2 # 0) IN
              /\ metadatas' = <<dnPushes + 1>> \o metadatas
              /\ frames' = frames + 1
              /\ IF ~CanOutput(frames + 1)
                 THEN \* quick_append
                      /\ splat' = [x \in 1 .. Len(splat) |->
                                     append(splat[x], frame[x], smart_blur(frame)[x])]
                      /\ UNCHANGED processed
                 ELSE /\ splat' = [x \in 1 .. Len(splat) |-> out[x].acc]
                      /\ processed' = <<<<[x \in 1 .. Len(splat) |-> out[x].px],
                                          [x \in 1 .. Len(splat) |-> out[x].imp]>>>>
                                        \o processed
              /\ dnPushes' = dnPushes + 1
              /\ dnLast' = <<"push_frame", "Ok", Len(frame)>>
    /\ UNCHANGED <<threshold, dnFlushed, dnOut>>
    /\ UNCHANGED <<ordVars, pipeVars, seqVars, baVars, capiVars, fnVars>>

\* a mutation of FlushDone: the loop stops one frame short
FlushDone_OneShort(d) == Len(d.processed) + 1 >= Len(metadatas)
\* flush: the loop "while self.processed.len() < self.metadatas.len()" ends
FlushDone(d) == ~(Len(d.processed) < Len(metadatas))

\* Denoiser::flush: the loop, on d = [splat, frames, processed]
RECURSIVE FlushLoop(_)
FlushLoop(d) ==
    IF FlushDone(d) THEN d
    ELSE LET out == [x \in 1 .. Len(d.splat) |->
                       next_pixel(append(d.splat[x], RGBA(0, 0, 0, 0), RGB(0, 0, 0)),
                                  threshold, d.frames % 2 # 0)]
         IN FlushLoop([splat |-> [x \in 1 .. Len(d.splat) |-> out[x].acc],
                       frames |-> d.frames + 1,
                       processed |->
                           IF CanOutput(d.frames + 1)
                           THEN <<<<[x \in 1 .. Len(d.splat) |-> out[x].px],
                                    [x \in 1 .. Len(d.splat) |-> out[x].imp]>>>>
                                  \o d.processed
                           ELSE d.processed])

\* Denoiser::flush
DnFlush ==
    /\ dnLast[1] # "idle"
    /\ dnPushes > 0
    /\ LET d == FlushLoop([splat |-> splat, frames |-> frames, processed |-> processed]) IN
       /\ splat' = d.splat
       /\ frames' = d.frames
       /\ processed' = d.processed
    /\ dnFlushed' = TRUE
    /\ dnLast' = <<"flush", "Ok">>
    /\ UNCHANGED <<threshold, metadatas, dnPushes, dnOut>>
    /\ UNCHANGED <<ordVars, pipeVars, seqVars, baVars, capiVars, fnVars>>

\* Denoiser::pop
DnPop ==
    /\ dnLast[1] # "idle"
    /\ dnPushes > 0
    /\ dnLast # <<"pop", "Done">>
    /\ dnLast # <<"pop", "panic">>
    /\ IF processed # <<>>
       THEN /\ processed' = SubSeq(processed, 1, Len(processed) - 1)
            /\ IF metadatas # <<>>
               THEN /\ metadatas' = SubSeq(metadatas, 1, Len(metadatas) - 1)
                    /\ dnLast' = <<"pop", "Frame">>
                    /\ dnOut' = Append(dnOut,
                                       [frame |-> processed[Len(processed)][1],
                                        importance_map |-> processed[Len(processed)][2],
                                        meta |-> metadatas[Len(metadatas)],
                                        pushes |-> dnPushes,
                                        flushed |-> dnFlushed])
               ELSE \* .expect("meta")
                    /\ dnLast' = <<"pop", "panic">>
                    /\ UNCHANGED <<metadatas, dnOut>>
       ELSE /\ dnLast' = IF metadatas # <<>> THEN <<"pop", "NotYet">> ELSE <<"pop", "Done">>
            /\ UNCHANGED <<processed, metadatas, dnOut>>
    /\ UNCHANGED <<splat, frames, threshold, dnPushes, dnFlushed>>
    /\ UNCHANGED <<ordVars, pipeVars, seqVars, baVars, capiVars, fnVars>>

DnNext == DnPush \/ DnFlush \/ DnPop

\* a denoiser for frames one or two pixels wide
DnInit ==
    /\ OrdInit
    /\ PipeIdle
    /\ SeqIdle
    /\ BaIdle
    /\ CapiIdle
    /\ FnIdle
    /\ \E width \in 1 .. 2, quality \in DnQualities : DnNew(width, quality)

SpecDenoise == DnInit /\ [][DnNext]_vars

(***************************************************************************)
(* Claims about the denoiser.                                              *)
(***************************************************************************)
\* C21: N calls of push_frame followed by flush() make pop() return exactly N
\* frames and then Done, never NotYet; the i-th frame carries the metadata of
\* the i-th push (the pushes are numbered 1, 2, ...); pop() never fails for
\* lack of metadata; and a flush() after the first one changes nothing in the
\* denoiser.
C21_Conservation ==
    /\ [](/\ dnLast # <<"pop", "panic">>
          /\ \A i \in 1 .. Len(dnOut) : dnOut[i].meta = i
          /\ dnFlushed => dnLast # <<"pop", "NotYet">>
          /\ dnLast = <<"pop", "Done">> => Len(dnOut) = dnPushes)
    /\ [][(dnFlushed /\ dnLast' = <<"flush", "Ok">>)
            => UNCHANGED <<splat, frames, threshold, processed, metadatas>>]_vars

\* three frames were pushed, and after flush() three frames and Done came out
C21_Witness ==
    /\ dnFlushed
    /\ dnLast = <<"pop", "Done">>
    /\ dnPushes = 3
    /\ Len(dnOut) = 3
    /\ \A i \in 1 .. 3 : dnOut[i].flushed

C23_PushRefused ==
    [][(dnLast' # dnLast /\ dnLast'[1] = "push_frame" /\ dnLast'[3] # Len(splat))
         => /\ dnLast'[2] = "Err"
            /\ UNCHANGED <<splat, frames, threshold, processed, metadatas, dnPushes>>]_vars

(***************************************************************************)
(* c_api.rs: the functions of the C API called on one handle by one        *)
(* thread, with valid pointers (a NULL handle, destination or callback is  *)
(* refused with NULL_ARG before the handle is looked at), and the write    *)
(* thread.  No thread panics while it holds a lock of the handle.          *)
(***************************************************************************)
\* the largest number of calls made on the handle
MaxCalls == 5

\* GifskiSettings::quality passed to gifski_new
NewQualities == {0, 80, 100, 101}
\* the quality passed to gifski_set_motion_quality and gifski_set_lossy_quality
SetQualities == {0, 90, 112}
\* the progress callbacks the caller has
Callbacks == {1, 2}
\* what Writer::write returns in the write thread (error.rs Error)
WriteResults == {"Ok", "Aborted", "NoFrames", "ThreadSend", "WrongSize", "Io"}
\* the io::ErrorKind of an Error::Io, as c_api_error.rs maps it
IoKinds == {"ALREADY_EXISTS", "WRITE_ZERO", "OTHER"}

\* c_api_error.rs: From<CatResult<()>> with the io::ErrorKind of an Io error
GifskiErrorOf(res, kind) == IF res = "Io" THEN kind ELSE GifskiError(res)

\* lib.rs new(): the settings are refused
BadSettings(quality) == quality = 0 \/ quality > 100

\* gifski_new
gifski_new(quality) ==
    /\ caller = "c_api"
    /\ cliPc = "idle"
    /\ g_progress = 0
    /\ g_write_thread = <<FALSE, "None">>
    /\ threads = <<>>
    /\ file = "absent"
    /\ IF BadSettings(quality)
       THEN /\ g_writer = FALSE /\ g_collector = FALSE /\ g_settings = <<>>
            /\ calls = [n |-> 0, fn |-> "gifski_new", res |-> "NULL", ok_starts |-> 0]
       ELSE /\ g_writer = TRUE /\ g_collector = TRUE
            /\ g_settings = [quality |-> quality, motion_quality |-> quality,
                             giflossy_quality |-> quality, extra_effort |-> FALSE,
                             fixed_colors |-> 0]
            /\ calls = [n |-> 0, fn |-> "gifski_new", res |-> "handle", ok_starts |-> 0]

\* the caller holds a handle it may use
HasHandle == caller = "c_api" /\ calls.res # "NULL" /\ calls.n < MaxCalls

\* the call fn returns res
Returns(fn, res) ==
    calls' = [n |-> calls.n + 1, fn |-> fn, res |-> res,
              ok_starts |-> calls.ok_starts
                  + (IF fn \in {"gifski_set_file_output", "gifski_set_write_callback"}
                        /\ res = "OK" THEN 1 ELSE 0)]

\* the setters: "if let Ok(Some(w)) = g.writer.lock().as_deref_mut()"
SetSetting(fn, field, v) ==
    /\ IF g_writer
       THEN g_settings' = [g_settings EXCEPT ![field] = v] /\ Returns(fn, "OK")
       ELSE UNCHANGED g_settings /\ Returns(fn, "INVALID_STATE")
    /\ UNCHANGED <<g_writer, g_collector, g_progress, g_write_thread, threads, file, caller, cliPc>>
    /\ UNCHANGED <<ordVars, pipeVars, seqVars, baVars, dnVars, fnVars>>

gifski_set_motion_quality(quality) ==
    /\ HasHandle
    /\ SetSetting("gifski_set_motion_quality", "motion_quality", quality)

gifski_set_lossy_quality(quality) ==
    /\ HasHandle
    /\ SetSetting("gifski_set_lossy_quality", "giflossy_quality", quality)

gifski_set_extra_effort(extra) ==
    /\ HasHandle
    /\ SetSetting("gifski_set_extra_effort", "extra_effort", extra)

\* Writer::add_fixed_color keeps at most 255 colours
gifski_add_fixed_color ==
    /\ HasHandle
    /\ SetSetting("gifski_add_fixed_color", "fixed_colors",
                  IF g_writer /\ g_settings.fixed_colors < 255
                  THEN g_settings.fixed_colors + 1 ELSE 0)

\* a mutation of Started: the flag is never seen
Started_Never == FALSE
\* write_thread.0: "set to true when the thread has been set up"
Started == g_write_thread[1]

\* gifski_set_progress_callback
gifski_set_progress_callback(cb) ==
    /\ HasHandle
    /\ IF Started
       THEN UNCHANGED g_progress /\ Returns("gifski_set_progress_callback", "INVALID_STATE")
       ELSE g_progress' = cb /\ Returns("gifski_set_progress_callback", "OK")
    /\ UNCHANGED <<g_writer, g_collector, g_write_thread, g_settings, threads, file, caller, cliPc>>
    /\ UNCHANGED <<ordVars, pipeVars, seqVars, baVars, dnVars, fnVars>>

\* gifski_write_thread_start, called by fn; spawned tells whether
\* thread::Builder::spawn returns Ok
gifski_write_thread_start(fn, path, spawned) ==
    IF Started
    THEN /\ Returns(fn, "INVALID_STATE")
         /\ UNCHANGED <<g_writer, g_progress, g_write_thread, threads>>
    ELSE /\ g_writer' = FALSE
         /\ g_progress' = 0
         /\ IF spawned
            THEN /\ threads' = Append(threads, [writer |-> g_writer, settings |-> g_settings,
                                               progress |-> g_progress, path |-> path,
                                               res |-> "running"])
                 /\ g_write_thread' = <<TRUE, "Some">>
                 /\ Returns(fn, "OK")
            ELSE /\ UNCHANGED <<threads, g_write_thread>>
                 /\ Returns(fn, "THREAD_LOST")

\* gifski_set_write_callback
gifski_set_write_callback(spawned) ==
    /\ HasHandle
    /\ gifski_write_thread_start("gifski_set_write_callback", FALSE, spawned)
    /\ UNCHANGED <<g_collector, g_settings, file, caller, cliPc>>
    /\ UNCHANGED <<ordVars, pipeVars, seqVars, baVars, dnVars, fnVars>>

\* gifski_set_file_output with prepare_for_file_writing; created tells whether
\* File::create returns Ok
gifski_set_file_output(created, spawned) ==
    /\ HasHandle
    /\ IF Started
       THEN /\ Returns("gifski_set_file_output", "INVALID_STATE")
            /\ UNCHANGED <<g_writer, g_progress, g_write_thread, threads, file>>
       ELSE IF ~created
       THEN /\ Returns("gifski_set_file_output", "PERMISSION_DENIED")
            /\ UNCHANGED <<g_writer, g_progress, g_write_thread, threads, file>>
       ELSE /\ file' = "partial"
            /\ gifski_write_thread_start("gifski_set_file_output", TRUE, spawned)
    /\ UNCHANGED <<g_collector, g_settings, caller, cliPc>>
    /\ UNCHANGED <<ordVars, pipeVars, seqVars, baVars, dnVars, fnVars>>

\* a mutation of KeepsFile: the file is kept after every result
KeepsFile_Always(err) == TRUE
\* the write thread: "res @ (GifskiError::OK | GifskiError::ALREADY_EXISTS) => res"
KeepsFile(err) == err \in {"OK", "ALREADY_EXISTS"}

\* the closure of the write thread.  Writer::write returns Ok only once the
\* Collector is dropped.
WriteThread(i) ==
    /\ caller \in {"c_api", "joining"}
    /\ i \in 1 .. Len(threads)
    /\ threads[i].res = "running"
    /\ IF threads[i].writer
       THEN \E res \in WriteResults, kind \in IoKinds :
              /\ res = "Ok" => ~g_collector
              /\ res # "Io" => kind = "OTHER"
              /\ threads' = [threads EXCEPT ![i].res = GifskiErrorOf(res, kind)]
              /\ file' = IF KeepsFile(GifskiErrorOf(res, kind))
                         THEN IF res = "Ok" /\ threads[i].path THEN "complete" ELSE file
                         ELSE IF threads[i].path THEN "absent" ELSE file
       ELSE /\ threads' = [threads EXCEPT ![i].res = "INVALID_STATE"]
            /\ UNCHANGED file
    /\ UNCHANGED <<g_writer, g_collector, g_progress, g_write_thread, g_settings, caller,
                   calls, cliPc>>
    /\ UNCHANGED <<ordVars, pipeVars, seqVars, baVars, dnVars, fnVars>>

\* gifski_finish up to thread.join(): the Collector is dropped, the thread taken
gifski_finish ==
    /\ HasHandle
    /\ g_collector' = FALSE
    /\ g_write_thread' = <<g_write_thread[1], "None">>
    /\ IF g_write_thread[2] = "Some"
       THEN caller' = "joining" /\ UNCHANGED calls
       ELSE caller' = "freed" /\ Returns("gifski_finish", "OK")
    /\ UNCHANGED <<g_writer, g_progress, g_settings, threads, file, cliPc>>
    /\ UNCHANGED <<ordVars, pipeVars, seqVars, baVars, dnVars, fnVars>>

\* gifski_finish: thread.join() returns what the write thread returned
FinishJoin ==
    /\ caller = "joining"
    /\ threads[Len(threads)].res # "running"
    /\ caller' = "freed"
    /\ Returns("gifski_finish", threads[Len(threads)].res)
    /\ UNCHANGED <<g_writer, g_collector, g_progress, g_write_thread, g_settings, threads,
                   file, cliPc>>
    /\ UNCHANGED <<ordVars, pipeVars, seqVars, baVars, dnVars, fnVars>>

(***************************************************************************)
(* bin/gifski.rs bin_main, from the point where the output is opened.      *)
(***************************************************************************)
\* the run starts: nothing is written yet
BinStart ==
    /\ caller = "cli"
    /\ cliPc = "start"
    /\ g_writer = FALSE /\ g_collector = FALSE /\ g_progress = 0
    /\ g_write_thread = <<FALSE, "None">> /\ g_settings = <<>> /\ threads = <<>>
    /\ file = "absent"
    /\ calls = [n |-> 0, fn |-> "bin_main", res |-> "running", ok_starts |-> 0]

\* "let out = match output_path": File::create(path), or the standard output
BinOpen(to_path, created) ==
    /\ caller = "cli"
    /\ cliPc = "start"
    /\ IF ~to_path
       THEN cliPc' = "write_stdout" /\ UNCHANGED <<file, calls>>
       ELSE IF created
       THEN cliPc' = "write_path" /\ file' = "partial" /\ UNCHANGED calls
       ELSE cliPc' = "done" /\ Returns("bin_main", "Err") /\ UNCHANGED file
    /\ UNCHANGED <<g_writer, g_collector, g_progress, g_write_thread, g_settings, threads, caller>>
    /\ UNCHANGED <<ordVars, pipeVars, seqVars, baVars, dnVars, fnVars>>

\* check_errors
check_errors(err1, err2) ==
    IF err1 = "Ok" THEN err2
    ELSE IF err1 \in {"ThreadSend", "Aborted", "NoFrames"} /\ err2 # "Ok" THEN err2
    ELSE err1

\* writer.write(..), decode_thread.join() and check_errors(..)?
BinWrite(write_result, thread_result) ==
    /\ caller = "cli"
    /\ cliPc \in {"write_path", "write_stdout"}
    /\ cliPc' = "done"
    /\ Returns("bin_main", check_errors(write_result, thread_result))
    /\ file' = IF cliPc = "write_path" /\ write_result = "Ok" THEN "complete" ELSE file
    /\ UNCHANGED <<g_writer, g_collector, g_progress, g_write_thread, g_settings, threads, caller>>
    /\ UNCHANGED <<ordVars, pipeVars, seqVars, baVars, dnVars, fnVars>>

CapiNext ==
    \/ \E quality \in SetQualities : gifski_set_motion_quality(quality)
    \/ \E quality \in SetQualities : gifski_set_lossy_quality(quality)
    \/ \E extra \in BOOLEAN : gifski_set_extra_effort(extra)
    \/ gifski_add_fixed_color
    \/ \E cb \in Callbacks : gifski_set_progress_callback(cb)
    \/ \E spawned \in BOOLEAN : gifski_set_write_callback(spawned)
    \/ \E created \in BOOLEAN, spawned \in BOOLEAN : gifski_set_file_output(created, spawned)
    \/ \E i \in 1 .. MaxCalls : WriteThread(i)
    \/ gifski_finish
    \/ FinishJoin
    \/ \E to_path \in BOOLEAN, created \in BOOLEAN : BinOpen(to_path, created)
    \/ \E write_result \in WriteResults, thread_result \in {"Ok", "PNG"} :
          BinWrite(write_result, thread_result)

\* a handle fresh from gifski_new, or a run of the program about to open its output
CapiInit ==
    /\ OrdInit
    /\ PipeIdle
    /\ SeqIdle
    /\ BaIdle
    /\ DnIdle
    /\ FnIdle
    /\ caller \in {"c_api", "cli"}
    /\ IF caller = "c_api"
       THEN \E quality \in NewQualities : gifski_new(quality)
       ELSE BinStart

SpecCapi == CapiInit /\ [][CapiNext]_vars

(***************************************************************************)
(* Claims about the C API and the command-line program.                    *)
(***************************************************************************)
\* the step is a call of one of the functions of fns, and it returns
Calls(fns) == calls'.n = calls.n + 1 /\ calls'.fn \in fns

\* a write thread holds the Writer
WriterHandedOver == \E i \in 1 .. Len(threads) : threads[i].writer

\* C24: on one handle gifski_set_write_callback / gifski_set_file_output return
\* OK at most once and at most one thread gets the Writer; once one of them has
\* returned OK, every call of either and every gifski_set_progress_callback
\* returns INVALID_STATE, starts no thread and leaves the callbacks, the Writer
\* and the output file alone; and once a write thread holds the Writer, the
\* setters of motion quality, lossy quality, extra effort and fixed colours
\* return INVALID_STATE and change no setting.
C24_Lifecycle ==
    /\ [](caller # "cli" =>
            /\ calls.ok_starts <= 1
            /\ Cardinality({i \in 1 .. Len(threads) : threads[i].writer}) <= 1)
    /\ [][/\ (/\ calls.ok_starts >= 1
              /\ Calls({"gifski_set_write_callback", "gifski_set_file_output",
                        "gifski_set_progress_callback"}))
               => /\ calls'.res = "INVALID_STATE"
                  /\ UNCHANGED <<threads, g_progress, g_writer, g_write_thread, file>>
          /\ (/\ WriterHandedOver
              /\ Calls({"gifski_set_motion_quality", "gifski_set_lossy_quality",
                        "gifski_set_extra_effort", "gifski_add_fixed_color"}))
               => /\ calls'.res = "INVALID_STATE"
                  /\ UNCHANGED <<g_settings, threads>>]_vars

\* the output was set once with callback 1 for the progress; a second
\* gifski_set_progress_callback was refused
C24_Witness ==
    /\ calls.ok_starts = 1
    /\ calls.fn = "gifski_set_progress_callback"
    /\ calls.res = "INVALID_STATE"
    /\ Len(threads) = 1
    /\ threads[1].writer
    /\ threads[1].progress = 1

\* C25: when encoding to a file path has failed, the partial output file is gone
\* by the time the failure is reported: when the program ends with an error,
\* and when gifski_finish returns an error, no partial file is left.
C25_PartialFileRemoved ==
    /\ (caller = "cli" /\ cliPc = "done" /\ calls.res # "Ok") => file # "partial"
    /\ (caller = "freed" /\ calls.fn = "gifski_finish" /\ calls.res # "OK")
         => file # "partial"

\* C26: whatever values gifski_new and the quality setters accepted, the
\* settings the write thread runs Writer::write with have quality,
\* motion_quality and giflossy_quality in 1 .. 100, so that 55 - quality / 2 of
\* Denoiser::new does not go below zero and gifsicle_quality <= 100 holds in
\* dithering_level.
C26_QualityInRange ==
    \A i \in 1 .. Len(threads) :
        threads[i].writer =>
            /\ threads[i].settings.quality \in 1 .. 100
            /\ threads[i].settings.motion_quality \in 1 .. 100
            /\ threads[i].settings.giflossy_quality \in 1 .. 100
            /\ 55 - (threads[i].settings.motion_quality \div 2) >= 0

(***************************************************************************)
(* lib.rs combine_res, called on every pair of results.                    *)
(***************************************************************************)
\* error.rs: Ok(()) and the variants of Error
Results ==
    {"Ok", "ThreadSend", "Aborted", "Gifsicle", "Gif", "NoFrames", "Io", "PNG",
     "WrongSize", "Quant", "Pal"}

\* the errors that combine_res gives way to another error
Noise == {"ThreadSend", "Aborted", "NoFrames"}

\* the two results are there, combine_res is about to be called
CombineInit ==
    /\ OrdInit
    /\ PipeIdle
    /\ SeqIdle
    /\ BaIdle
    /\ DnIdle
    /\ CapiIdle
    /\ fnPc = "combine_res"
    /\ fnIn \in Results \X Results
    /\ fnOut = <<>>

\* combine_res(res1, res2)
CombineRes ==
    /\ fnPc = "combine_res"
    /\ fnPc' = "done"
    /\ fnOut' = <<combine_res(fnIn[1], fnIn[2])>>
    /\ UNCHANGED fnIn
    /\ UNCHANGED <<ordVars, pipeVars, seqVars, baVars, dnVars, capiVars>>

SpecCombine == CombineInit /\ [][CombineRes]_vars

\* combine_res has returned
Combined == fnPc = "done" /\ Len(fnIn) = 2 /\ fnIn[1] \in Results /\ fnIn[2] \in Results

\* what C27 says of every pair but two real errors: Ok only for two Ok, the
\* only error if there is one, and ThreadSend, Aborted and NoFrames give way
\* to any other error
C27_NoiseDiscarded ==
    Combined =>
        /\ (fnOut[1] = "Ok") <=> (fnIn[1] = "Ok" /\ fnIn[2] = "Ok")
        /\ fnOut[1] \in {fnIn[1], fnIn[2]}
        /\ (fnIn[1] # "Ok" /\ fnIn[2] = "Ok") => fnOut[1] = fnIn[1]
        /\ (fnIn[1] = "Ok" /\ fnIn[2] # "Ok") => fnOut[1] = fnIn[2]
        /\ (fnIn[1] \in Noise /\ fnIn[2] \notin Noise \cup {"Ok"}) => fnOut[1] = fnIn[2]
        /\ (fnIn[2] \in Noise /\ fnIn[1] \notin Noise \cup {"Ok"}) => fnOut[1] = fnIn[1]

\* C27: combine_res keeps the first cause: it returns Ok only if both results
\* are Ok, the error if exactly one is an error, the other error if one is
\* ThreadSend, Aborted or NoFrames, and the first argument's error when both
\* are real errors.
C27_FirstCause ==
    /\ C27_NoiseDiscarded
    /\ (/\ Combined
        /\ fnIn[1] \notin Noise \cup {"Ok"}
        /\ fnIn[2] \notin Noise \cup {"Ok"}) => fnOut[1] = fnIn[1]

(***************************************************************************)
(* lib.rs trim_image on images of several rows.  An image is a sequence of *)
(* rows, a row a sequence of palette indices; index 0 is the transparent   *)
(* index and index c > 0 the opaque colour Solid(c).                       *)
(***************************************************************************)
\* is_matching_pixel at column x of row y
MatchingAt(image8, dispose, bg, x, y) == is_matching_pixel(image8[y][x], bg[y][x], dispose)

\* a mutation of trim_image_rows: the columns on the right are not looked at
trim_image_rows_NoRight(image8, dispose, bg) ==
    LET H == Len(image8)
        W == Len(image8[1])
        row(y) == \A x \in 1 .. W : MatchingAt(image8, dispose, bg, x, y)
        bottom == Cardinality({y \in 1 .. H : \A z \in y .. H : row(z)})
        H1 == H - bottom
        top == Cardinality({y \in 1 .. H1 : \A z \in 1 .. y : row(z)})
        col(x) == \A y \in top + 1 .. H1 : MatchingAt(image8, dispose, bg, x, y)
        left == Cardinality({x \in 1 .. W - 1 : \A z \in 1 .. x : col(z)})
        right == 0
    IN IF bottom = H THEN <<>> ELSE <<left, top, W - left - right, H1 - top>>
\* trim_image: <<left, top, width, height>>, or <<>> for None.  The rows that
\* match are counted from the bottom (None if all of them match), then from
\* the top; in the rows left, the matching columns are counted from the left
\* over 0 .. width - 1 and from the right over 1 .. width of what is left.
trim_image_rows(image8, dispose, bg) ==
    LET H == Len(image8)
        W == Len(image8[1])
        row(y) == \A x \in 1 .. W : MatchingAt(image8, dispose, bg, x, y)
        bottom == Cardinality({y \in 1 .. H : \A z \in y .. H : row(z)})
        H1 == H - bottom
        top == Cardinality({y \in 1 .. H1 : \A z \in 1 .. y : row(z)})
        col(x) == \A y \in top + 1 .. H1 : MatchingAt(image8, dispose, bg, x, y)
        left == Cardinality({x \in 1 .. W - 1 : \A z \in 1 .. x : col(z)})
        right == Cardinality({x \in left + 2 .. W : \A z \in x .. W : col(z)})
    IN IF bottom = H THEN <<>> ELSE <<left, top, W - left - right, H1 - top>>

\* the screens tried: all transparent, all of colour 1, and a chequered one
TrimScreens(W, H) ==
    {[y \in 1 .. H |-> [x \in 1 .. W |-> Clear]],
     [y \in 1 .. H |-> [x \in 1 .. W |-> Solid(1)]],
     [y \in 1 .. H |-> [x \in 1 .. W |-> IF (x + y) % 2 = 0 THEN Clear ELSE Solid(1)]]}

\* an image of up to three rows and columns over the transparent index and
\* one colour, a disposal method and a screen of the same size
TrimInit ==
    /\ OrdInit
    /\ PipeIdle
    /\ SeqIdle
    /\ BaIdle
    /\ DnIdle
    /\ CapiIdle
    /\ fnPc = "trim_image"
    /\ \E W \in 1 .. 3, H \in 1 .. 3 :
         \E image8 \in [1 .. H -> [1 .. W -> 0 .. 1]], bg \in TrimScreens(W, H),
            dispose \in {"Keep", "Background"} :
              fnIn = <<image8, dispose, bg>>
    /\ fnOut = <<>>

\* trim_image(image8, .., dispose, screen)
TrimImage ==
    /\ fnPc = "trim_image"
    /\ fnPc' = "done"
    /\ fnOut' = <<trim_image_rows(fnIn[1], fnIn[2], fnIn[3])>>
    /\ UNCHANGED fnIn
    /\ UNCHANGED <<ordVars, pipeVars, seqVars, baVars, dnVars, capiVars>>

SpecTrim == TrimInit /\ [][TrimImage]_vars

\* the positions <<x, y>> of the pixels that do not match, as C29 has it: a
\* transparent pixel matches anything under Keep and only a fully transparent
\* screen pixel under Background, an opaque one only the same opaque pixel
NotMatching ==
    {p \in (1 .. Len(fnIn[1][1])) \X (1 .. Len(fnIn[1])) :
        LET px == fnIn[1][p[2]][p[1]]
            scr == fnIn[3][p[2]][p[1]]
        IN ~ IF px = 0
             THEN fnIn[2] = "Keep" \/ scr.a = 0
             ELSE scr.a = 255 /\ scr.c = px}

\* C29: trim_image returns None exactly when every pixel matches the screen;
\* otherwise it returns the smallest rectangle that holds every pixel that
\* does not match: left and top are the least column and row of such a pixel,
\* width and height reach to the greatest ones, so the rectangle is at least
\* one pixel wide and high and lies inside the image.
C29_SmallestRectangle ==
    (fnPc = "done" /\ Len(fnIn) = 3) =>
        LET t == fnOut[1]
            xs == {p[1] : p \in NotMatching}
            ys == {p[2] : p \in NotMatching}
        IN /\ (t = <<>>) <=> (NotMatching = {})
           /\ t # <<>> =>
                /\ \A x \in xs : t[1] + 1 <= x /\ x <= t[1] + t[3]
                /\ \A y \in ys : t[2] + 1 <= y /\ y <= t[2] + t[4]
                /\ t[1] + 1 \in xs /\ t[1] + t[3] \in xs
                /\ t[2] + 1 \in ys /\ t[2] + t[4] \in ys
                /\ t[3] >= 1 /\ t[4] >= 1
                /\ t[1] >= 0 /\ t[1] + t[3] <= Len(fnIn[1][1])
                /\ t[2] >= 0 /\ t[2] + t[4] <= Len(fnIn[1])

\* a frame of three rows and columns disposed with Background over a screen of
\* colour 1: only the transparent pixel in the middle does not match, and
\* the rectangle returned is that one pixel
C29_Witness ==
    /\ fnPc = "done"
    /\ Len(fnIn) = 3
    /\ fnIn[2] = "Background"
    /\ Len(fnIn[1]) = 3
    /\ Len(fnIn[1][1]) = 3
    /\ NotMatching = {<<2, 2>>}
    /\ fnIn[1][2][2] = 0
    /\ fnOut = <<(<<1, 1, 1, 1>>)>>

(***************************************************************************)
(* lib.rs transparent_index_from_palette.  Palette index i of the source   *)
(* is element i + 1 of the palette here; None is the empty sequence.       *)
(***************************************************************************)
\* a mutation of IsTransparentEntry: alpha 128 counts as opaque
IsTransparentEntry_Below128(p) == p.a < 128
\* "if p.a <= 128"
IsTransparentEntry(p) == p.a <= 128

\* the for loop over the palette from index i on: a transparent entry becomes
\* RGBA8::new(71,80,76,0); the first one found is the transparent index, and
\* the pixels that refer to a later one are rewritten to the first
RECURSIVE PaletteLoop(_, _, _, _)
PaletteLoop(i, image8_pal, image8, transparent_index) ==
    IF i >= Len(image8_pal)
    THEN [pal |-> [n \in DOMAIN image8_pal |-> rgb(image8_pal[n])],
          transparent_index |-> transparent_index,
          image8 |-> image8]
    ELSE IF IsTransparentEntry(image8_pal[i + 1])
    THEN LET pal == [image8_pal EXCEPT ![i + 1] = RGBA(71, 80, 76, 0)] IN
         IF transparent_index # <<>>
         THEN PaletteLoop(i + 1, pal,
                  [k \in DOMAIN image8 |->
                      IF image8[k] = i THEN transparent_index[1] ELSE image8[k]],
                  transparent_index)
         ELSE PaletteLoop(i + 1, pal, image8, <<i>>)
    ELSE PaletteLoop(i + 1, image8_pal, image8, transparent_index)

\* transparent_index_from_palette
transparent_index_from_palette(image8_pal, image8) ==
    PaletteLoop(0, image8_pal, image8, <<>>)

\* the palette entries tried: one colour with the alphas around the threshold
PaletteEntries == {RGBA(9, 9, 9, a) : a \in {0, 128, 129, 255}}

\* a palette of one to three entries and three pixels that refer to it
PaletteInit ==
    /\ OrdInit
    /\ PipeIdle
    /\ SeqIdle
    /\ BaIdle
    /\ DnIdle
    /\ CapiIdle
    /\ fnPc = "transparent_index_from_palette"
    /\ \E len \in 1 .. 3 :
         \E image8_pal \in [1 .. len -> PaletteEntries], image8 \in [1 .. 3 -> 0 .. len - 1] :
            fnIn = <<image8_pal, image8>>
    /\ fnOut = <<>>

\* transparent_index_from_palette(image8_pal, image8.as_mut())
TransparentIndexFromPalette ==
    /\ fnPc = "transparent_index_from_palette"
    /\ fnPc' = "done"
    /\ fnOut' = <<transparent_index_from_palette(fnIn[1], fnIn[2])>>
    /\ UNCHANGED fnIn
    /\ UNCHANGED <<ordVars, pipeVars, seqVars, baVars, dnVars, capiVars>>

SpecPalette == PaletteInit /\ [][TransparentIndexFromPalette]_vars

\* the indices of the entries of the palette passed in with alpha <= 128
TransparentEntries == {i \in 0 .. Len(fnIn[1]) - 1 : fnIn[1][i + 1].a <= 128}

\* C30: transparent_index_from_palette returns the lowest palette index whose
\* alpha is <= 128 (None if there is none); afterwards no pixel refers to
\* another entry with alpha <= 128, the pixels that referred to opaque entries
\* are unchanged, and the palette is as long as before.
C30_TransparencyNormalized ==
    (fnPc = "done" /\ Len(fnIn) = 2) =>
        LET out == fnOut[1] IN
        /\ out.transparent_index =
              IF TransparentEntries = {} THEN <<>>
              ELSE <<CHOOSE i \in TransparentEntries : \A j \in TransparentEntries : i <= j>>
        /\ \A k \in DOMAIN out.image8 :
              out.image8[k] \in TransparentEntries => <<out.image8[k]>> = out.transparent_index
        /\ \A k \in DOMAIN fnIn[2] :
              fnIn[2][k] \notin TransparentEntries => out.image8[k] = fnIn[2][k]
        /\ DOMAIN out.image8 = DOMAIN fnIn[2]
        /\ Len(out.pal) = Len(fnIn[1])

\* entries 1 and 2 of a palette of three are transparent (alpha 128 and 0),
\* entry 0 is opaque; the pixels 2, 1, 0 have become 1, 1, 0
C30_Witness ==
    /\ fnPc = "done"
    /\ Len(fnIn) = 2
    /\ Len(fnIn[1]) = 3
    /\ fnIn[1][1].a = 255 /\ fnIn[1][2].a = 128 /\ fnIn[1][3].a = 0
    /\ fnIn[2] = <<2, 1, 0>>
    /\ fnOut[1].transparent_index = <<1>>
    /\ fnOut[1].image8 = <<1, 1, 0>>

(***************************************************************************)
(* Claims about Acc::next_pixel, checked on the frames that the Denoiser   *)
(* of SpecDenoise puts out.                                                *)
(***************************************************************************)
\* the step is a push_frame, or a flush of one turn, that puts out a frame:
\* every Acc has appended one sample and given one pixel
OneFrameOut == frames' = frames + 1 /\ Len(processed') = Len(processed) + 1

\* the Acc at x as next_pixel found it in such a step: the rings after append
\* (next_pixel leaves them alone) with the background as it was
AccBefore(x) ==
    [splat'[x] EXCEPT !.bg_set = splat[x].bg_set,
                      !.can_stay_for = splat[x].can_stay_for,
                      !.stayed_for = splat[x].stayed_for]

\* the sample of the frame put out is transparent: bit 0 of alpha_bits
SampleTransparent(x) == splat'[x].alpha_bits % 2 = 1

\* C31: whenever the sample for the frame being put out is transparent, the
\* pixel put out is RGBA(0,0,0,0); its importance is 1 if the committed
\* background was opaque, which is then marked transparent with can_stay_for
\* reset to 0, and 0 otherwise.  In the frames popped: a transparent pixel is
\* RGBA(0,0,0,0), and its importance is 1 after an opaque pixel and 0 after a
\* transparent one or in the first frame.
C31_TransparentSample ==
    /\ [][OneFrameOut =>
            \A x \in 1 .. Len(splat) :
               SampleTransparent(x) =>
                  /\ Head(processed')[1][x] = RGBA(0, 0, 0, 0)
                  /\ Head(processed')[2][x] = IF splat[x].bg_set.a > 0 THEN 1 ELSE 0
                  /\ splat[x].bg_set.a > 0 =>
                        /\ splat'[x].bg_set.a = 0
                        /\ splat'[x].can_stay_for = 0
                  /\ ~(splat[x].bg_set.a > 0) => splat'[x].bg_set = splat[x].bg_set]_vars
    /\ [](\A i \in 1 .. Len(dnOut) : \A x \in 1 .. Len(dnOut[i].frame) :
            dnOut[i].frame[x].a < 128 =>
               /\ dnOut[i].frame[x] = RGBA(0, 0, 0, 0)
               /\ dnOut[i].importance_map[x] =
                     IF i > 1 /\ dnOut[i - 1].frame[x].a > 0 THEN 1 ELSE 0)

\* an opaque pixel was put out, then a transparent one with importance 1, then
\* a transparent one with importance 0
C31_Witness ==
    /\ Len(dnOut) >= 3
    /\ dnOut[1].frame[1].a = 255
    /\ dnOut[2].frame[1] = RGBA(0, 0, 0, 0) /\ dnOut[2].importance_map[1] = 1
    /\ dnOut[3].frame[1] = RGBA(0, 0, 0, 0) /\ dnOut[3].importance_map[1] = 0

\* in a step that puts out a frame, next_pixel commits a new background at x:
\* the sample is opaque, the arm "stayed_for < can_stay_for" is not taken, and
\* the pixel is not the old background with importance 0
Commits(x) ==
    /\ ~SampleTransparent(x)
    /\ ~(splat[x].stayed_for < splat[x].can_stay_for)
    /\ Head(processed')[2][x] > 0

\* the number of further frames the background committed at x can stay for
\* (0 on the fast path, which leaves can_stay_for and stayed_for alone)
StaysAfter(x) ==
    IF splat'[x].stayed_for = 0 /\ splat'[x].can_stay_for >= 1
    THEN splat'[x].can_stay_for ELSE 0

\* the least importance of a commit, and the weight passed as max
CommitMin(stays) == IF stays = 0 THEN 10 ELSE IF stays = 1 THEN 5 ELSE IF stays = 2 THEN 15 ELSE 50
CommitMax(stays) == IF stays = 0 THEN 110 ELSE IF stays = 1 THEN 80 ELSE IF stays = 2 THEN 190 ELSE 205

\* can_stay_for never exceeds 4 and no importance put out exceeds 255
C32_Bounded ==
    /\ \A x \in 1 .. Len(splat) : splat[x].can_stay_for <= LOOKAHEAD - 1
    /\ \A i \in 1 .. Len(processed) : \A x \in 1 .. Len(processed[i][2]) :
          processed[i][2][x] \in 0 .. 255

\* C32 as stated: when a new background is committed the importance lies in
\* 10..110 if no later frame of the window matches, and in 5..80, 15..190 or
\* 50..205 when the background can stay for 1, 2 or at least 3 frames;
\* can_stay_for never exceeds 4 and the importance never exceeds 255.
C32_RangesAsStated ==
    /\ [][OneFrameOut =>
            \A x \in 1 .. Len(splat) :
               Commits(x) =>
                  Head(processed')[2][x] \in
                      CommitMin(StaysAfter(x)) .. CommitMax(StaysAfter(x))]_vars
    /\ []C32_Bounded

\* C32, amended: the importance of a commit lies between the least value and
\* the least value plus the weight: 10..120, 5..85, 15..205 or 50..255.
C32_Ranges ==
    /\ [][OneFrameOut =>
            \A x \in 1 .. Len(splat) :
               Commits(x) =>
                  Head(processed')[2][x] \in
                      CommitMin(StaysAfter(x)) ..
                          (CommitMin(StaysAfter(x)) + CommitMax(StaysAfter(x)))]_vars
    /\ []C32_Bounded

\* the first frame put out committed a background that stays for 4 frames with
\* importance 255, and a later one a background that cannot stay, with 120
C32_Witness ==
    /\ Len(dnOut) >= 2
    /\ dnOut[1].importance_map[1] = 255
    /\ \E i \in 2 .. Len(dnOut) : dnOut[i].importance_map[1] = 120

(***************************************************************************)
(* Claims about the abort flags and the worker pools of the pipeline.      *)
(***************************************************************************)
\* some pool's abort flag is set
AnyFailed == rzFailed \/ qFailed \/ lzFailed

\* C33: there is one abort flag shared by all stages (what one pool's workers
\* see set, the workers of the other pools see set as well), and once it is
\* set no stage starts a further item: no further frame is taken by
\* remap_frames or written by the writer.
C33_SharedAbortFlag ==
    /\ [](rzFailed = qFailed /\ qFailed = lzFailed)
    /\ [][AnyFailed => (written' = written /\ rmSeen' = rmSeen)]_vars

(***************************************************************************)
(* minipool.rs new_scope on its own.  fnIn holds the state of one call:    *)
(* failed (the AtomicBool), handles (one Worker per spawned thread, m: how *)
(* its consumer closure ended, res: what the thread returned), res (what   *)
(* the waiter returned, "none" before) and joined (the handles joined so   *)
(* far, in order).  fnPc is the position of the calling thread.            *)
(***************************************************************************)
\* the largest num_threads
MaxPool == 3

\* how a consumer closure can end, and what a waiter can return
ConsumerEnds == {"Ok", "Aborted", "PNG", "panic"}
WaiterEnds == {"Ok", "NoFrames", "Io"}

\* new_scope(num_threads, ..): spawned threads run; if a spawn fails the flag
\* is set and the closure of the scope returns ThreadSend at once
PoolInit ==
    /\ OrdInit
    /\ PipeIdle
    /\ SeqIdle
    /\ BaIdle
    /\ DnIdle
    /\ CapiIdle
    /\ \E num_threads \in 1 .. MaxPool, spawned \in 0 .. MaxPool :
         /\ spawned <= num_threads
         /\ fnIn = [failed |-> spawned < num_threads,
                    handles |-> [w \in 1 .. spawned |-> Worker("run", "none", "none")],
                    res |-> IF spawned < num_threads THEN "ThreadSend" ELSE "none",
                    joined |-> 0]
         /\ fnPc = IF spawned < num_threads THEN "scope_end" ELSE "waiter"
    /\ fnOut = <<>>

\* the thread closure: catch_unwind(consumer(failed)), a panic becomes
\* ThreadSend, and an Err sets the flag
PoolThread(w, end) ==
    /\ fnPc \in {"waiter", "join", "scope_end"}
    /\ w \in DOMAIN fnIn.handles
    /\ fnIn.handles[w].pc = "run"
    /\ LET r == IF end = "panic" THEN "ThreadSend" ELSE end IN
       fnIn' = [fnIn EXCEPT !.handles[w] = Worker("done", end, r),
                            !.failed = IF r # "Ok" THEN TRUE ELSE @]
    /\ UNCHANGED <<fnPc, fnOut>>
    /\ UNCHANGED <<ordVars, pipeVars, seqVars, baVars, dnVars, capiVars>>

\* let res = waiter().map_err(..)
PoolWaiter(r) ==
    /\ fnPc = "waiter"
    /\ fnPc' = "join"
    /\ fnIn' = [fnIn EXCEPT !.res = r, !.failed = IF r # "Ok" THEN TRUE ELSE @]
    /\ UNCHANGED fnOut
    /\ UNCHANGED <<ordVars, pipeVars, seqVars, baVars, dnVars, capiVars>>

\* handles.into_iter().try_for_each(|h| h.join()..?)?: the next handle is
\* joined once its thread has terminated; the first Err ends the closure
PoolJoin ==
    /\ fnPc = "join"
    /\ fnIn.joined < Len(fnIn.handles)
    /\ fnIn.handles[fnIn.joined + 1].pc = "done"
    /\ IF fnIn.handles[fnIn.joined + 1].res # "Ok"
       THEN /\ fnPc' = "scope_end"
            /\ fnIn' = [fnIn EXCEPT !.joined = @ + 1, !.res = fnIn.handles[fnIn.joined + 1].res]
       ELSE /\ fnPc' = IF fnIn.joined + 1 = Len(fnIn.handles) THEN "scope_end" ELSE "join"
            /\ fnIn' = [fnIn EXCEPT !.joined = @ + 1]
    /\ UNCHANGED fnOut
    /\ UNCHANGED <<ordVars, pipeVars, seqVars, baVars, dnVars, capiVars>>

\* std::thread::scope returns what its closure returned once every thread
\* spawned in it has terminated
PoolReturn ==
    /\ fnPc = "scope_end"
    /\ AllDone(fnIn.handles)
    /\ fnPc' = "done"
    /\ fnOut' = <<fnIn.res>>
    /\ UNCHANGED fnIn
    /\ UNCHANGED <<ordVars, pipeVars, seqVars, baVars, dnVars, capiVars>>

PoolNext ==
    \/ \E w \in 1 .. MaxPool, end \in ConsumerEnds : PoolThread(w, end)
    \/ \E r \in WaiterEnds : PoolWaiter(r)
    \/ PoolJoin
    \/ PoolReturn

SpecPool == PoolInit /\ [][PoolNext]_vars

\* C34: if a worker closure of new_scope returns Err or panics, the pool's
\* abort flag is set; the panic does not reach the caller but is reported as
\* ThreadSend; new_scope returns Err even when the waiter returned Ok; and
\* new_scope returns only after all worker threads have terminated.
C34_PoolFailure ==
    /\ [](\A w \in DOMAIN fnIn.handles :
            /\ fnIn.handles[w].m \in {"Aborted", "PNG", "panic"} => fnIn.failed
            /\ fnIn.handles[w].m = "panic" => fnIn.handles[w].res = "ThreadSend")
    /\ [](fnPc = "done" =>
            /\ fnOut[1] # "panic"
            /\ (\E w \in DOMAIN fnIn.handles : fnIn.handles[w].m \in {"Aborted", "PNG", "panic"}) => fnOut[1] # "Ok"
            /\ \A w \in DOMAIN fnIn.handles : fnIn.handles[w].pc = "done")
    /\ [][fnIn.failed => fnIn'.failed]_vars

\* of three workers the first ended Ok and the second panicked after the waiter
\* had returned Ok: new_scope has returned ThreadSend, and the third worker,
\* whose handle was never joined, has terminated with Aborted
C34_Witness ==
    /\ fnPc = "done"
    /\ Len(fnIn.handles) = 3
    /\ fnIn.joined = 2
    /\ fnIn.handles[1].m = "Ok"
    /\ fnIn.handles[2].m = "panic"
    /\ fnIn.handles[3].m = "Aborted"
    /\ fnOut = <<"ThreadSend">>

\* no delay was brought into 2 .. 30000: each is the difference itself
NoDelayClamped ==
    \A j \in 1 .. Len(sqOut) :
        sqOut[j].delay = (sqOut[j].end_pts + 5) \div 10 - SumOfDelays(sqOut, j - 1)

\* the timestamp of the last input frame as make_diffs shifts it, and the
\* duration make_diffs gives that frame, in milliseconds
ShiftedLastPts == sqIn[Len(sqIn)].pts - (IF sqIn[1].pts > 10 THEN sqIn[1].pts ELSE 0)
TrailingDuration ==
    LET n == Len(sqIn)
        d == IF sqIn[1].pts > 10 THEN sqIn[1].pts
             ELSE sqIn[n].pts - (IF n = 1 THEN 0 ELSE sqIn[n - 1].pts)
    IN IF d < 10 THEN 10 ELSE d

\* C35: on a finished run in which no delay is clamped, the delays of the
\* written frames add up to round(100 * (shifted pts of the last input frame +
\* its trailing duration)), however many frames were merged or dropped, and
\* after each written frame the delays so far add up to round(100 * end_pts)
\* of that frame.
C35_TotalDuration ==
    (sqPc = "done" /\ NoDelayClamped) =>
        /\ SumOfDelays(sqOut, Len(sqOut)) = (ShiftedLastPts + TrailingDuration + 5) \div 10
        /\ \A j \in 1 .. Len(sqOut) :
              SumOfDelays(sqOut, j) = (sqOut[j].end_pts + 5) \div 10

\* [F, F, G] at 0, 0.1 and 1.2 s: the first two frames were merged and written
\* with delay 120, the third with delay 110, 230 in all
C35_Witness ==
    /\ sqPc = "done"
    /\ NoDelayClamped
    /\ Len(sqIn) = 3
    /\ <<sqIn[1].pts, sqIn[2].pts, sqIn[3].pts>> = <<0, 100, 1200>>
    /\ sqIn[1].image = sqIn[2].image
    /\ Len(sqOut) = 2
    /\ sqOut[1].delay = 120
    /\ sqOut[2].delay = 110

\* C36: in every frame the denoiser puts out after the first, a pixel whose
\* importance is 0 has the RGBA value put out for it in the frame before: a
\* pixel whose colour or transparency changes has an importance above 0, and a
\* frame whose importance map is all zero is its predecessor again.
C36_ImportanceZero ==
    \A i \in 2 .. Len(dnOut) : \A x \in DOMAIN dnOut[i].frame :
        dnOut[i].importance_map[x] = 0 => dnOut[i].frame[x] = dnOut[i - 1].frame[x]

\* an opaque pixel was put out a second time with importance 0, and a later
\* frame changed it with an importance above 0
C36_Witness ==
    /\ Len(dnOut) >= 3
    /\ dnOut[1].frame[1].a = 255
    /\ dnOut[2].importance_map[1] = 0
    /\ dnOut[2].frame[1] = dnOut[1].frame[1]
    /\ dnOut[3].frame[1] # dnOut[2].frame[1]
    /\ dnOut[3].frame[1].a = 255
    /\ dnOut[3].importance_map[1] > 0

\* C37: when write() has returned Ok, every frame for which add_frame returned
\* Ok has been returned by inputs.next() to make_diffs, the frames that were
\* waiting in the input channel, with a resize worker or in the buffer of the
\* ordered queue when the senders went away included, and each exactly once.
C37_NoFrameLost ==
    (writer = "done" /\ writeRes = "Ok") =>
        /\ Range(dfSeen) = colAccepted
        /\ Len(dfSeen) = Cardinality(colAccepted)
        /\ inq = <<>>
        /\ dfHeap = {}

\* frames 0 and 2 were accepted and frame 1 never passed: frame 2 waited in the
\* buffer of the ordered queue until every sender was gone, and was delivered
C37_Witness ==
    /\ writer = "done"
    /\ writeRes = "Ok"
    /\ colAccepted = {0, 2}
    /\ dfSeen = <<0, 2>>

\* the QuantizeMessages carry the indices 0, 1, 2, ...: the messages in
\* quant_queue carry consecutive indices that end one below the producer's
\* counter, and a send, and nothing else, adds the counter's value
ProducerIndices ==
    /\ [](/\ \A k \in 1 .. Len(qch) - 1 : qch[k + 1][1] = qch[k][1] + 1
          /\ qch # <<>> => qch[Len(qch)][1] = qpIdx - 1)
    /\ [][Len(qch') > Len(qch) => (qch'[Len(qch')][1] = qpIdx /\ qpIdx' = qpIdx + 1)]_vars
    /\ [][qpIdx' # qpIdx => Len(qch') > Len(qch)]_vars

\* the FrameMessages carry the indices 0, 1, 2, ...: remap_frames counts the
\* messages it has sent and each carries the count, and when write() returns
\* Ok the frames written are 0, 1, 2, ... in a row
FrameMessageIndices ==
    /\ [](rmMsg # NoMsg => rmMsg[1] = rmIdx)
    /\ [][rmIdx' # rmIdx =>
            (rmIdx' = rmIdx + 1 /\ \E w \in DOMAIN lz : lz'[w].m = rmMsg /\ lz[w].m = NoMsg)]_vars
    /\ [](writeRes = "Ok" => \A k \in DOMAIN written : written[k] = k - 1)

RoundSqrtArea(x) ==
    CHOOSE f \in 0 .. 66 :
        /\ (f = 0 \/ ((2 * f) - 1) * ((2 * f) - 1) * 120000 <= x)
        /\ x < ((2 * f) + 1) * ((2 * f) + 1) * 120000

\* dimensions_for_image((img_w, img_h), resize_to)
dimensions_for_image(img_w, img_h, resize_to) ==
    LET w == resize_to[1]
        h == resize_to[2]
    IN IF w = <<>> /\ h = <<>>
       THEN LET factor == RoundSqrtArea((img_w * img_h) + ((800 * 600) \div 2))
            IN IF factor > 1 THEN <<img_w \div factor, img_h \div factor>>
               ELSE <<img_w, img_h>>
       ELSE IF w # <<>> /\ h # <<>>
       THEN <<Min2(w[1], img_w), Min2(h[1], img_h)>>
       ELSE IF w # <<>>
       THEN LET w1 == Min2(w[1], img_w) IN <<w1, (img_h * w1) \div img_w>>
       ELSE LET h1 == Min2(h[1], img_h) IN <<(img_w * h1) \div img_h, h1>>

\* new(): the width and height settings it does not refuse
SettingAccepted(opt) == ~((IF opt = <<>> THEN 0 ELSE opt[1]) > 2 ^ 16)

\* the image sizes and the settings tried
ImageWidths == {1, 2, 600, 1000, 65536, 70000}
ImageHeights == {1, 2, 600, 1000, 30000}
SizeSettings == {<<>>, <<0>>, <<1>>, <<500>>, <<65535>>, <<65536>>, <<65537>>}

DimsInit ==
    /\ OrdInit
    /\ PipeIdle
    /\ SeqIdle
    /\ BaIdle
    /\ DnIdle
    /\ CapiIdle
    /\ fnPc = "dimensions_for_image"
    /\ fnIn \in {a \in ImageWidths \X ImageHeights \X SizeSettings \X SizeSettings :
                    SettingAccepted(a[3]) /\ SettingAccepted(a[4])}
    /\ fnOut = <<>>

\* resized(): the target size of an image is computed
DimensionsForImage ==
    /\ fnPc = "dimensions_for_image"
    /\ fnPc' = "done"
    /\ fnOut' = dimensions_for_image(fnIn[1], fnIn[2], <<fnIn[3], fnIn[4]>>)
    /\ UNCHANGED fnIn
    /\ UNCHANGED <<ordVars, pipeVars, seqVars, baVars, dnVars, capiVars>>

SpecDims == DimsInit /\ [][DimensionsForImage]_vars

\* C39: for every image of at least 1x1 pixels and every width and height
\* setting new() accepts, the width and the height dimensions_for_image returns
\* are at least 1 and at most 65535, not above the image's own width and
\* height, and not above the maximum asked for.
C39_DimensionsInRange ==
    fnPc = "done" =>
        /\ fnOut[1] \in 1 .. 65535
        /\ fnOut[2] \in 1 .. 65535
        /\ fnOut[1] <= fnIn[1]
        /\ fnOut[2] <= fnIn[2]
        /\ fnIn[3] # <<>> => fnOut[1] <= fnIn[3][1]
        /\ fnIn[4] # <<>> => fnOut[2] <= fnIn[4][1]

(***************************************************************************)
(* gifsicle.rs: GiflossyWriter::write, without the packing of the codes    *)
(* into bytes.  The images tried are far shorter than the 4090 pixels it   *)
(* takes for next_code to reach 0x0FFF, so the code table is never cleared *)
(* after the first clear code.  fnIn is the call: img (palette indices),   *)
(* transparent (<<>> or <<index>>) and loss.  fnOut is the writer: pos,    *)
(* nodes (the CodeTable; node id n is nodes[n + 1]), next_code, codes (the *)
(* LZW codes put out) and, as history, subst: for every pixel encoded by   *)
(* try_node, px, the suffix next_px it was encoded as, diff and dither.    *)
(***************************************************************************)
\* the longest image encoded
MaxLzwPixels == 6

\* the palette: index 0 (the transparent index, if there is one) has the
\* colour of index 1, and index 2 is close to index 1
LzwPal == <<RGB(10, 10, 10), RGB(10, 10, 10), RGB(12, 10, 10)>>
\* the loss values tried: none, less than the difference of the two colours,
\* gifsicle_loss() of quality 99, and the largest value below 2^25
LossValues == {0, 3, 110, (2 ^ 25) - 1}

\* i32 division, which rounds towards zero
TruncDiv(a, b) == IF a >= 0 THEN a \div b ELSE -((-a) \div b)

\* a mutation of gifsicle_color_diff: transparency is not compared
gifsicle_color_diff_NoAlpha(a, b, a_transparent, b_transparent, dither) ==
    LET dr == (a.r - b.r) + dither.r
        dg == (a.g - b.g) + dither.g
        db == (a.b - b.b) + dither.b
        ur == (a.r - b.r) + TruncDiv(dither.r, 2)
        ug == (a.g - b.g) + TruncDiv(dither.g, 2)
        ub == (a.b - b.b) + TruncDiv(dither.b, 2)
        dith == (dr * dr) + (dg * dg) + (db * db)
        undith == (ur * ur) + (ug * ug) + (ub * ub)
    IN IF dith < undith THEN dith ELSE undith
\* gifsicle.rs color_diff
gifsicle_color_diff(a, b, a_transparent, b_transparent, dither) ==
    IF a_transparent # b_transparent THEN 2 ^ 25
    ELSE IF a_transparent THEN 0
    ELSE
    LET dr == (a.r - b.r) + dither.r
        dg == (a.g - b.g) + dither.g
        db == (a.b - b.b) + dither.b
        ur == (a.r - b.r) + TruncDiv(dither.r, 2)
        ug == (a.g - b.g) + TruncDiv(dither.g, 2)
        ub == (a.b - b.b) + TruncDiv(dither.b, 2)
        dith == (dr * dr) + (dg * dg) + (db * db)
        undith == (ur * ur) + (ug * ug) + (ub * ub)
    IN IF dith < undith THEN dith ELSE undith

\* gifsicle.rs diffused_difference
diffused_difference(a, b, a_transparent, b_transparent, dither) ==
    IF a_transparent \/ b_transparent THEN RGB(0, 0, 0)
    ELSE RGB((a.r - b.r) + TruncDiv(dither.r * 3, 4),
             (a.g - b.g) + TruncDiv(dither.g * 3, 4),
             (a.b - b.b) + TruncDiv(dither.b * 3, 4))

\* CodeTable::reset for clear_code = 4, and CodeTable::define
CodeTable_reset == [i \in 1 .. 4 |-> [code |-> i - 1, suffix |-> i - 1, children |-> <<>>]]
define(nodes, work_node_id, suffix, next_code) ==
    [Append(nodes, [code |-> next_code, suffix |-> suffix, children |-> <<>>])
       EXCEPT ![work_node_id + 1].children = Append(@, Len(nodes))]

\* Some(px) == self.image.transparent
IsTransparent(c, px) == c.transparent = <<px>>

RECURSIVE lossy_node(_, _, _, _, _, _, _)
RECURSIVE try_children(_, _, _, _, _, _, _, _, _)
\* Lookup::try_node; l is the Lookup (best_node, best_pos, best_total_diff, and
\* best_path, the pixels encoded on the way to best_node), c what it borrows
try_node(c, l, at, node_id, px, dither, total_diff, path) ==
    LET next_px == c.nodes[node_id + 1].suffix
        diff == IF px = next_px THEN 0
                ELSE gifsicle_color_diff(LzwPal[px + 1], LzwPal[next_px + 1],
                                         IsTransparent(c, px), IsTransparent(c, next_px), dither)
    IN IF diff <= c.max_diff
       THEN LET new_dither == diffused_difference(LzwPal[px + 1], LzwPal[next_px + 1],
                                                  IsTransparent(c, px),
                                                  IsTransparent(c, next_px), dither)
                new_pos == at + 1
                new_diff == total_diff + diff
                new_path == Append(path, [px |-> px, next_px |-> next_px, diff |-> diff,
                                          dither |-> dither])
                l1 == IF new_pos > l.best_pos
                         \/ (new_pos = l.best_pos /\ new_diff < l.best_total_diff)
                      THEN [best_node |-> node_id, best_pos |-> new_pos,
                            best_total_diff |-> new_diff, best_path |-> new_path]
                      ELSE l
            IN lossy_node(c, l1, new_pos, node_id, new_diff, new_dither, new_path)
       ELSE l

\* the for_each of lossy_node over the children of a node, from the k-th on
try_children(c, l, kids, k, at, px, dither, total_diff, path) ==
    IF k > Len(kids) THEN l
    ELSE try_children(c, try_node(c, l, at, kids[k], px, dither, total_diff, path),
                      kids, k + 1, at, px, dither, total_diff, path)

\* Lookup::lossy_node
lossy_node(c, l, at, node_id, total_diff, dither, path) ==
    IF at >= Len(c.img) THEN l
    ELSE try_children(c, l, c.nodes[node_id + 1].children, 1, at, c.img[at + 1],
                      dither, total_diff, path)

LzwImages == UNION {[1 .. n -> 0 .. 2] : n \in 1 .. MaxLzwPixels}

\* write() has put out the clear code and reset the table
LzwInit ==
    /\ OrdInit
    /\ PipeIdle
    /\ SeqIdle
    /\ BaIdle
    /\ DnIdle
    /\ CapiIdle
    /\ fnPc = "write"
    /\ fnIn \in [img : LzwImages, transparent : {<<>>, <<0>>}, loss : LossValues]
    /\ fnOut = [pos |-> 0, nodes |-> CodeTable_reset, next_code |-> 6, codes |-> <<4>>,
                subst |-> <<>>]

\* write(), one turn of the loop with Some(px) = image.px_at_pos(pos)
LzwEncode ==
    /\ fnPc = "write"
    /\ fnOut.pos < Len(fnIn.img)
    /\ LET px == fnIn.img[fnOut.pos + 1]
           c == [nodes |-> fnOut.nodes, img |-> fnIn.img, transparent |-> fnIn.transparent,
                 max_diff |-> fnIn.loss]
           l == lossy_node(c, [best_node |-> px, best_pos |-> fnOut.pos + 1,
                               best_total_diff |-> 0, best_path |-> <<>>],
                           fnOut.pos + 1, px, 0, RGB(0, 0, 0), <<>>)
           more == l.best_pos < Len(fnIn.img)
       IN fnOut' = [pos |-> l.best_pos,
                    nodes |-> IF more
                              THEN define(fnOut.nodes, l.best_node, fnIn.img[l.best_pos + 1],
                                          fnOut.next_code)
                              ELSE fnOut.nodes,
                    next_code |-> IF more THEN fnOut.next_code + 1 ELSE fnOut.next_code,
                    codes |-> Append(fnOut.codes, fnOut.nodes[l.best_node + 1].code),
                    subst |-> fnOut.subst \o l.best_path]
    /\ UNCHANGED <<fnPc, fnIn>>
    /\ UNCHANGED <<ordVars, pipeVars, seqVars, baVars, dnVars, capiVars>>

\* write(), the last turn: px_at_pos(pos) is None and the end code is put out
LzwEnd ==
    /\ fnPc = "write"
    /\ fnOut.pos >= Len(fnIn.img)
    /\ fnPc' = "done"
    /\ fnOut' = [fnOut EXCEPT !.codes = Append(@, 5)]
    /\ UNCHANGED fnIn
    /\ UNCHANGED <<ordVars, pipeVars, seqVars, baVars, dnVars, capiVars>>

LzwNext == LzwEncode \/ LzwEnd

SpecLzw == LzwInit /\ [][LzwNext]_vars

\* C40: for every loss below 2^25, a pixel that write() encodes with another
\* palette index than its own is transparent exactly if that index is the
\* transparent one, and the colour difference of the two, under the diffusion
\* error carried to that pixel, is at most loss.
C40_TransparencyKept ==
    \A k \in DOMAIN fnOut.subst :
        LET e == fnOut.subst[k] IN
        e.px # e.next_px =>
            /\ (fnIn.transparent = <<e.px>>) = (fnIn.transparent = <<e.next_px>>)
            /\ e.diff <= fnIn.loss
            /\ e.diff = gifsicle_color_diff(LzwPal[e.px + 1], LzwPal[e.next_px + 1],
                                            fnIn.transparent = <<e.px>>,
                                            fnIn.transparent = <<e.next_px>>, e.dither)

\* with the largest loss and 0 the transparent index, the last two pixels of
\* 1 1 1 1 2 2 were encoded as index 1, the second of them under the diffusion
\* error (2, 0, 0) that the first left
C40_Witness ==
    /\ fnPc = "done"
    /\ fnIn.loss = (2 ^ 25) - 1
    /\ fnIn.img = <<1, 1, 1, 1, 2, 2>>
    /\ fnIn.transparent = <<0>>
    /\ \E k \in DOMAIN fnOut.subst :
          /\ fnOut.subst[k].px = 2
          /\ fnOut.subst[k].next_px = 1
          /\ fnOut.subst[k].dither = RGB(2, 0, 0)
          /\ fnOut.subst[k].diff = 9

====
